---- MODULE Spec2Model ----
(***************************************************************************)
(* Batch synchronisation controller of Zoho-Creator-Picture-Sync:          *)
(* backend/sync/batch_engine.py (run_batch_sync and its helpers),          *)
(* backend/api/routes.py (the batch control plane) and                     *)
(* backend/db/models.py (the batch_sync_state and images tables).          *)
(*                                                                         *)
(* The backend is one asyncio event loop.  The Supabase client is          *)
(* synchronous, so a repository call never yields; a task yields only at   *)
(* a page request, an attachment download and the inter-batch sleep.  A    *)
(* task whose pc is "loop", "batch", "tail" or "persist" holds the event   *)
(* loop: nothing else runs until it reaches its next suspension point.     *)
(***************************************************************************)
EXTENDS Integers, Sequences, FiniteSets, TLC

VARIABLES
    source,            \* the remote report: the records in (stable) report order
    sessions,          \* table batch_sync_state: row id -> row, ids in creation order
    pause_requested,   \* batch_engine._pause_requested: ids with a pause signal
    cancel_requested,  \* batch_engine._cancel_requested: ids with a cancel signal
    tasks,             \* background tasks running (or about to run) run_batch_sync
    images,            \* table images: one row per (zoho_record_id, field_name)
    storage,           \* the storage bucket: the paths uploaded
    passed,            \* history: passed[s][i] = calls of _process_record on record i in session s
    appended,          \* history: appended[s] = every entry handed to append_errors for session s
    limiter,           \* zoho/client.py RateLimiter: its fields, its callers and the clock
    auth,              \* zoho/auth.py ZohoAuth: its fields, its callers and the token endpoint
    processor,         \* sync/processor.py ImageProcessor: the last call of process_if_needed
    fetcher,           \* zoho/client.py fetch_records: one run of the generator
    runs,              \* table sync_runs, and the tasks running SyncEngine.run_sync
    updates,           \* db/models.py update_batch_sync: the calls made directly on the table
    sync               \* sync/engine.py run_sync: one call, its statistics and its sync_runs row

\* the components outside the batch controller
others == <<limiter, auth, processor, fetcher, runs, updates, sync>>

vars == <<source, sessions, pause_requested, cancel_requested, tasks, images,
          storage, passed, appended, limiter, auth, processor, fetcher, runs,
          updates, sync>>

(***************************************************************************)
(* Bounds of the model.                                                    *)
(***************************************************************************)
MaxSessions == 2      \* rows ever created in batch_sync_state
MaxTasks == 2         \* background tasks alive at the same time
CtlRecords == 2       \* records in the report when tasks run concurrently
MaxRecords == 3       \* records in the report when one task runs at a time
MaxBatchSize == 2     \* largest batch_size an operator chooses
PageSize == 2         \* page_size of fetch_records, scaled down
MaxLogChunk == 2      \* largest ordinary error list handed to append_errors
MaxCallers == 2       \* coroutines calling RateLimiter.wait or get_access_token
MaxCalls == 4         \* calls of RateLimiter.wait ever made
MaxTime == 6          \* ticks of the monotonic clock
MinInterval == 2      \* RateLimiter.min_interval = 1 / calls_per_second, in ticks
MaxRefreshes == 3     \* refresh requests ever sent to the token endpoint
MaxCooldowns == 2         \* 429 answers to one fetch_records
MaxRuns == 4              \* rows of sync_runs
MaxUpdates == 3       \* calls of update_batch_sync made directly on the table
MaxSyncRecords == 51  \* records in the report read by run_sync
MaxNameLen == 3       \* parts of a filename handed to process_if_needed

MaxErrors == 1000     \* "Keep last 1000 errors max"

ProgressEvery == 50       \* run_sync: "if stats['records_processed'] % 50 == 0"
MaxDimension == 4000      \* ImageProcessor.max_dimension
MantissaBits == 53        \* significand of a Python float (IEEE 754 binary64)
MaxSizeBytes == 5242880   \* ImageProcessor.max_size_bytes = max_size_mb * 1024 * 1024, max_size_mb = 5

TaskIds == 1..MaxTasks

Callers == 1..MaxCallers

ActiveStatuses == {"pending", "running", "paused"}
TerminalStatuses == {"cancelled", "completed", "completed_with_errors", "failed"}

(***************************************************************************)
(* Records of the report.  mtime is the parsed Modified_Time: 0 when the   *)
(* field is absent or unparsable (_parse_zoho_datetime returns None),      *)
(* otherwise a point in time.  atts is what extract_image_fields returns:  *)
(* per attachment the kind of its download_url.                            *)
(***************************************************************************)
UrlKinds == {"http", "invalid"}

Max(S) == CHOOSE x \in S : \A y \in S : y <= x

\* the filter that also drops a record without a readable timestamp
Filtered_Unparsed(rec, date_to) ==
    /\ date_to # 0
    /\ rec.mtime = 0 \/ rec.mtime > date_to

\* batch_engine.py:144-147 -- the date_to filter (date_to = 0: no bound; mtime = 0:
\* _parse_zoho_datetime gave None)
Filtered(rec, date_to) ==
    /\ date_to # 0
    /\ rec.mtime # 0
    /\ rec.mtime > date_to

\* image_exists with the test len(result.data) > 1
ImageExists_OffByOne(imgs, rid, field) ==
    Cardinality({r \in imgs : r.zoho_record_id = rid /\ r.field_name = field}) > 1

\* models.py:100-104
ImageExists(imgs, rid, field) ==
    \E r \in imgs : r.zoho_record_id = rid /\ r.field_name = field

\* batch_engine.py:328-331 -- the storage path is a function of the record and the field
StoragePath(rid, field) == <<rid, field>>

\* models.py:106-142 -- upsert on the key (zoho_record_id, field_name)
UpsertImage(imgs, rid, field) ==
    {r \in imgs : ~(r.zoho_record_id = rid /\ r.field_name = field)}
        \cup {[zoho_record_id |-> rid, field_name |-> field,
               storage_path |-> StoragePath(rid, field)]}

\* _process_record without the dry-run branch
AttachmentOutcome_NoDryRun(exists, dry_run, url) ==
    IF exists THEN "skip"
    ELSE IF url # "http" THEN "invalid"
    ELSE "download"

\* _process_record with the dry-run branch ahead of the existence check
AttachmentOutcome_DryRunFirst(exists, dry_run, url) ==
    IF dry_run THEN "dry"
    ELSE IF exists THEN "skip"
    ELSE IF url # "http" THEN "invalid"
    ELSE "download"

\* batch_engine.py:295-320 -- what _process_record does with one attachment
AttachmentOutcome(exists, dry_run, url) ==
    IF exists THEN "skip"
    ELSE IF dry_run THEN "dry"
    ELSE IF url # "http" THEN "invalid"
    ELSE "download"

\* append_errors keeping combined[:1000], the oldest entries
TrimLog_KeepsOldest(combined) ==
    IF Len(combined) > MaxErrors
    THEN SubSeq(combined, 1, MaxErrors)
    ELSE combined

\* models.py:446-449 -- the bounded error log
TrimLog(combined) ==
    IF Len(combined) > MaxErrors
    THEN SubSeq(combined, Len(combined) - MaxErrors + 1, Len(combined))
    ELSE combined

\* update_batch_sync writing current_offset = 0 when the caller supplies none
UpdateBatchSync_ResetsOffset(ss, id, supplied) ==
    [ss EXCEPT ![id] =
        [f \in DOMAIN ss[id] |->
            IF f \in DOMAIN supplied THEN supplied[f]
            ELSE IF f = "current_offset" THEN 0
            ELSE ss[id][f]]]

\* models.py:394-435 -- the update holds the keyword arguments that are not None
\* (supplied: the arguments given, by name), and nothing else of the row
UpdateBatchSync(ss, id, supplied) ==
    [ss EXCEPT ![id] =
        [f \in DOMAIN ss[id] |->
            IF f \in DOMAIN supplied THEN supplied[f] ELSE ss[id][f]]]

\* models.py:441-450
AppendErrors(ss, id, new_errors) ==
    IF id \in DOMAIN ss
    THEN UpdateBatchSync(ss, id, [error_log |-> TrimLog(ss[id].error_log \o new_errors)])
    ELSE ss

\* models.py:437-439
SetStatus(ss, id, status) == UpdateBatchSync(ss, id, [status |-> status])

\* update_batch_sync called with the index of the last record of the batch
UpdateProgress_LastIndex(ss, id, offset, stats) ==
    UpdateBatchSync(ss, id,
        [current_offset |-> offset - 1,
         batches_completed |-> stats.batches_completed,
         records_processed |-> stats.records_processed,
         images_synced |-> stats.images_synced,
         images_skipped |-> stats.images_skipped,
         errors |-> stats.errors])

\* update_batch_sync called without current_offset
UpdateProgress_KeepsOffset(ss, id, offset, stats) ==
    UpdateBatchSync(ss, id,
        [batches_completed |-> stats.batches_completed,
         records_processed |-> stats.records_processed,
         images_synced |-> stats.images_synced,
         images_skipped |-> stats.images_skipped,
         errors |-> stats.errors])

\* models.py:394-435 as called at batch_engine.py:161-170 and 200-209
UpdateProgress(ss, id, offset, stats) ==
    UpdateBatchSync(ss, id,
        [current_offset |-> offset,
         batches_completed |-> stats.batches_completed,
         records_processed |-> stats.records_processed,
         images_synced |-> stats.images_synced,
         images_skipped |-> stats.images_skipped,
         errors |-> stats.errors])

\* models.py:380-385 -- the most recent row with an active status (0: none)
GetActiveBatchSync(ss) ==
    LET act == {i \in DOMAIN ss : ss[i].status \in ActiveStatuses}
    IN IF act = {} THEN 0 ELSE Max(act)

\* models.py:342-373
NewSession(cfg) ==
    [status |-> "pending",
     batch_size |-> cfg.batch_size,
     delay_between_batches |-> cfg.delay_between_batches,
     date_to |-> cfg.date_to,
     dry_run |-> cfg.dry_run,
     current_offset |-> 0,
     batches_completed |-> 0,
     records_processed |-> 0,
     images_synced |-> 0,
     images_skipped |-> 0,
     errors |-> 0,
     error_log |-> <<>>]

ZeroStats ==
    [records_processed |-> 0, images_synced |-> 0, images_skipped |-> 0,
     errors |-> 0, batches_completed |-> 0]

\* a free slot of the task table
IdleTask ==
    [pc |-> "idle", sid |-> 0, batch_size |-> 0, delay |-> 0, date_to |-> 0,
     dry_run |-> FALSE, current_offset |-> 0, record_index |-> 0,
     from_index |-> 0, page |-> <<>>, seen |-> 0, batch_records |-> <<>>,
     stats |-> ZeroStats, error_log |-> <<>>, bi |-> 0, ai |-> 0,
     final |-> FALSE]

\* the pcs at which a task is suspended (or does not run)
SuspendedPcs == {"idle", "sched", "awaitPage", "awaitDownload", "sleeping"}

\* no task holds the event loop
LoopFree == \A w \in TaskIds : tasks[w].pc \in SuspendedPcs

\* task w may take its next step
MayRun(w) == \A v \in TaskIds \ {w} : tasks[v].pc \in SuspendedPcs

FreeSlot == CHOOSE w \in TaskIds : tasks[w].pc = "idle" /\ \A v \in TaskIds : tasks[v].pc = "idle" => w <= v

\* routes.py:319-323, 424-428 -- background_tasks.add_task(run_batch)
Schedule(id) == [tasks EXCEPT ![FreeSlot] = [IdleTask EXCEPT !.pc = "sched", !.sid = id]]

\* client.py:41-44 -- RateLimiter.__init__, no caller, the clock at its origin
LimiterInit ==
    [now |-> 0, last_call |-> 0, lock |-> 0,
     pc |-> [c \in Callers |-> "idle"], wake |-> [c \in Callers |-> 0],
     queue |-> <<>>, called |-> [c \in Callers |-> 0],
     grants |-> <<>>, waited |-> <<>>]

\* auth.py:12-17 -- ZohoAuth.__init__, no caller, no request sent
AuthInit ==
    [access_token |-> 0, fresh |-> FALSE, issued |-> 0,
     pc |-> [c \in Callers |-> "idle"], request |-> [c \in Callers |-> 0],
     got |-> [c \in Callers |-> 0]]

\* processor.py:17-20 -- ImageProcessor.__init__, process_if_needed not called yet
ProcessorInit == [called |-> FALSE]

\* client.py:114 -- fetch_records not called yet
FetcherInit ==
    [pc |-> "idle", page_size |-> 0, from_index |-> 0, page |-> <<>>,
     yielded |-> <<>>, cooldowns |-> 0, failures |-> 0]

\* models.py:40-50 -- no row in sync_runs, no task
RunsInit == [rows |-> <<>>, tasks |-> {}, job |-> 0]

UpdatesInit == [calls |-> 0, batch_id |-> 0, supplied |-> <<>>]

\* engine.py:42-58 -- no call of run_sync yet.  records is the length of the report,
\* error_log the number of entries of the list, row the row of sync_runs
SyncInit ==
    [pc |-> "idle", records |-> 0, max_records |-> 0, cursor |-> 0,
     stats |-> [records_processed |-> 0, images_synced |-> 0, images_skipped |-> 0,
                errors |-> 0],
     error_log |-> 0, row |-> <<>>, returned |-> <<>>]

OthersInit ==
    /\ limiter = LimiterInit
    /\ auth = AuthInit
    /\ processor = ProcessorInit
    /\ fetcher = FetcherInit
    /\ runs = RunsInit
    /\ updates = UpdatesInit
    /\ sync = SyncInit

(***************************************************************************)
(* The control plane, backend/api/routes.py.  A handler runs without       *)
(* yielding; the task it adds starts after the response has been sent.     *)
(***************************************************************************)
Configs(batchSizes, delays, dateTos, dryRuns) ==
    [batch_size : batchSizes, delay_between_batches : delays,
     date_to : dateTos, dry_run : dryRuns]

\* routes.py:277-335
StartBatchSync(cfg) ==
    /\ LoopFree
    /\ Len(sessions) < MaxSessions
    /\ \E w \in TaskIds : tasks[w].pc = "idle"
    /\ LET active == GetActiveBatchSync(sessions)
       IN ~(active # 0 /\ sessions[active].status \in {"pending", "running"})
    /\ sessions' = Append(sessions, NewSession(cfg))
    /\ passed' = Append(passed, [i \in 1..Len(source) |-> 0])
    /\ appended' = Append(appended, <<>>)
    /\ tasks' = Schedule(Len(sessions) + 1)
    /\ UNCHANGED <<source, others, pause_requested, cancel_requested, images, storage>>

\* routes.py:376-394
PauseBatchSync(id) ==
    /\ LoopFree
    /\ id \in DOMAIN sessions
    /\ sessions[id].status = "running"
    /\ id \notin pause_requested
    /\ pause_requested' = pause_requested \cup {id}
    /\ UNCHANGED <<source, others, sessions, cancel_requested, tasks, images, storage, passed, appended>>

\* routes.py:397-430
ResumeBatchSync(id) ==
    /\ LoopFree
    /\ id \in DOMAIN sessions
    /\ sessions[id].status = "paused"
    /\ \E w \in TaskIds : tasks[w].pc = "idle"
    /\ LET active == GetActiveBatchSync(sessions)
       IN ~(active # 0 /\ active # id /\ sessions[active].status = "running")
    /\ tasks' = Schedule(id)
    /\ UNCHANGED <<source, others, sessions, pause_requested, cancel_requested, images,
                   storage, passed, appended>>

\* routes.py:433-457
CancelBatchSync(id) ==
    /\ LoopFree
    /\ id \in DOMAIN sessions
    /\ sessions[id].status \in {"pending", "running", "paused"}
    /\ IF sessions[id].status = "running"
       THEN /\ id \notin cancel_requested
            /\ cancel_requested' = cancel_requested \cup {id}
            /\ UNCHANGED sessions
       ELSE /\ sessions' = SetStatus(sessions, id, "cancelled")
            /\ UNCHANGED cancel_requested
    /\ UNCHANGED <<source, others, pause_requested, tasks, images, storage,
                   passed, appended>>

(***************************************************************************)
(* BatchSyncEngine.run_batch_sync, backend/sync/batch_engine.py:90-232.    *)
(***************************************************************************)
\* clear_requests leaving the tables as they are
ClearRequests_Keeps(reqs, id) == reqs

\* batch_engine.py:42-45
ClearRequests(reqs, id) == reqs \ {id}

\* the final status chosen without looking at the errors counter
FinalStatus_IgnoresErrors(errors) == "completed"

\* batch_engine.py:215
FinalStatus(errors) == IF errors = 0 THEN "completed" ELSE "completed_with_errors"

\* the record a task is processing, and the task once it is done with an attachment
RecOf(t) == source[t.batch_records[t.bi]]

\* batch_engine.py:248, 292 -- the two for loops of _process_batch and _process_record
AfterAttachment(t) ==
    IF t.ai < Len(RecOf(t).atts)
    THEN [t EXCEPT !.pc = "batch", !.ai = @ + 1]
    ELSE IF t.bi < Len(t.batch_records)
         THEN [t EXCEPT !.pc = "batch", !.bi = @ + 1, !.ai = 0]
         ELSE [t EXCEPT !.pc = "persist", !.bi = 0, !.ai = 0]

\* batch_engine.py:97-137 -- up to the first page request
WorkerStart(w) ==
    /\ tasks[w].pc = "sched"
    /\ MayRun(w)
    /\ LET id == tasks[w].sid
           row == sessions[id]
       IN /\ pause_requested' = ClearRequests(pause_requested, id)
          /\ cancel_requested' = ClearRequests(cancel_requested, id)
          /\ sessions' = SetStatus(sessions, id, "running")
          /\ tasks' = [tasks EXCEPT ![w] =
                 [IdleTask EXCEPT
                     !.pc = "awaitPage",
                     !.sid = id,
                     !.batch_size = row.batch_size,
                     !.delay = row.delay_between_batches,
                     !.date_to = row.date_to,
                     !.dry_run = row.dry_run,
                     !.current_offset = row.current_offset,
                     !.stats = [records_processed |-> row.records_processed,
                                images_synced |-> row.images_synced,
                                images_skipped |-> row.images_skipped,
                                errors |-> row.errors,
                                batches_completed |-> row.batches_completed]]]
    /\ UNCHANGED <<source, others, images, storage, passed, appended>>

\* fetch_records taking a page shorter than page_size for an empty page
PageOf_DropsPartialPage(from_index) ==
    [k \in 1..(IF from_index + PageSize <= Len(source) THEN PageSize ELSE 0)
        |-> from_index + k]

\* client.py:114-139 -- the answer to the request of the page at from_index
PageOf(from_index) ==
    [k \in 1..(IF from_index >= Len(source) THEN 0
               ELSE IF from_index + PageSize <= Len(source) THEN PageSize
               ELSE Len(source) - from_index) |-> from_index + k]

\* client.py:126-142 -- a page arrives; an empty page ends the generator
PageArrives(w) ==
    /\ tasks[w].pc = "awaitPage"
    /\ MayRun(w)
    /\ LET page == PageOf(tasks[w].from_index)
       IN tasks' = [tasks EXCEPT ![w].page = page,
                                 ![w].pc = IF page = <<>> THEN "tail" ELSE "loop"]
    /\ UNCHANGED <<source, others, sessions, pause_requested, cancel_requested, images,
                   storage, passed, appended>>

\* batch_engine.py:219-230 -- an exception escapes the main loop
Fatal(w) ==
    LET t == tasks[w]
        id == t.sid
        log == Append(t.error_log, [record_id |-> 0, field |-> 0, error |-> "fatal_error"])
    IN /\ sessions' = SetStatus(AppendErrors(sessions, id, log), id, "failed")
       /\ appended' = [appended EXCEPT ![id] = @ \o log]
       /\ pause_requested' = ClearRequests(pause_requested, id)
       /\ cancel_requested' = ClearRequests(cancel_requested, id)
       /\ tasks' = [tasks EXCEPT ![w] = IdleTask]

\* client.py:126-135 -- the page request fails: fetch_records raises
PageFails(w) ==
    /\ tasks[w].pc = "awaitPage"
    /\ MayRun(w)
    /\ Fatal(w)
    /\ UNCHANGED <<source, others, images, storage, passed>>

\* batch_engine.py:134-158 with client.py:141-144 -- one turn of the async for
LoopBody(w) ==
    /\ tasks[w].pc = "loop"
    /\ LET t == tasks[w]
       IN IF t.page = <<>>
          THEN tasks' = [tasks EXCEPT ![w].pc = "awaitPage",
                                      ![w].from_index = @ + PageSize]
          ELSE LET i == Head(t.page)
                   t1 == [t EXCEPT !.page = Tail(@), !.seen = @ + 1]
               IN IF t.record_index < t.current_offset
                  THEN tasks' = [tasks EXCEPT ![w] = [t1 EXCEPT !.record_index = @ + 1]]
                  ELSE IF Filtered(source[i], t.date_to)
                  THEN tasks' = [tasks EXCEPT ![w] = t1]
                  ELSE LET t2 == [t1 EXCEPT !.batch_records = Append(@, i),
                                            !.record_index = @ + 1]
                       IN tasks' = [tasks EXCEPT ![w] =
                              IF Len(t2.batch_records) >= t.batch_size
                              THEN [t2 EXCEPT !.pc = "batch", !.bi = 1, !.ai = 0]
                              ELSE t2]
    /\ UNCHANGED <<source, others, sessions, pause_requested, cancel_requested, images,
                   storage, passed, appended>>

\* batch_engine.py:248-252, 270-290 -- _process_batch hands a record to _process_record
RecordStart(w) ==
    /\ tasks[w].pc = "batch"
    /\ tasks[w].ai = 0
    /\ LET t == tasks[w]
           i == t.batch_records[t.bi]
       IN /\ tasks' = [tasks EXCEPT ![w] =
                 AfterAttachment([t EXCEPT !.stats.records_processed = @ + 1])]
          /\ passed' = [passed EXCEPT ![t.sid][i] = @ + 1]
    /\ UNCHANGED <<source, others, sessions, pause_requested, cancel_requested, images,
                   storage, appended>>

\* batch_engine.py:292-320 -- one attachment, up to the download request
Attachment(w) ==
    /\ tasks[w].pc = "batch"
    /\ tasks[w].ai > 0
    /\ LET t == tasks[w]
           rid == t.batch_records[t.bi]
           field == t.ai
           outcome == AttachmentOutcome(ImageExists(images, rid, field), t.dry_run,
                                        RecOf(t).atts[t.ai])
       IN CASE outcome = "skip" ->
                 tasks' = [tasks EXCEPT ![w] =
                     AfterAttachment([t EXCEPT !.stats.images_skipped = @ + 1])]
            [] outcome = "dry" ->
                 tasks' = [tasks EXCEPT ![w] =
                     AfterAttachment([t EXCEPT !.stats.images_synced = @ + 1])]
            [] outcome = "invalid" ->
                 tasks' = [tasks EXCEPT ![w] =
                     AfterAttachment([t EXCEPT
                         !.stats.errors = @ + 1,
                         !.error_log = Append(@, [record_id |-> rid, field |-> field,
                                                  error |-> "Invalid URL"])])]
            [] outcome = "download" ->
                 tasks' = [tasks EXCEPT ![w].pc = "awaitDownload"]
    /\ UNCHANGED <<source, others, sessions, pause_requested, cancel_requested, images,
                   storage, passed, appended>>

\* _process_record writing the row first: the upload that follows is refused
AttachmentSynced_RowBeforeUpload(w) ==
    /\ tasks[w].pc = "awaitDownload"
    /\ MayRun(w)
    /\ LET t == tasks[w]
           rid == t.batch_records[t.bi]
           field == t.ai
       IN /\ StoragePath(rid, field) \notin storage
          /\ images' = UpsertImage(images, rid, field)
          /\ tasks' = [tasks EXCEPT ![w] =
                 AfterAttachment([t EXCEPT
                     !.stats.errors = @ + 1,
                     !.error_log = Append(@, [record_id |-> rid, field |-> field,
                                              error |-> "failed"])])]
    /\ UNCHANGED <<source, others, sessions, pause_requested, cancel_requested,
                   storage, passed, appended>>

\* batch_engine.py:320-358 -- the download returns, the upload and the metadata write succeed
AttachmentSynced(w) ==
    /\ tasks[w].pc = "awaitDownload"
    /\ MayRun(w)
    /\ LET t == tasks[w]
           rid == t.batch_records[t.bi]
           field == t.ai
       IN /\ StoragePath(rid, field) \notin storage
          /\ storage' = storage \cup {StoragePath(rid, field)}
          /\ images' = UpsertImage(images, rid, field)
          /\ tasks' = [tasks EXCEPT ![w] =
                 AfterAttachment([t EXCEPT !.stats.images_synced = @ + 1])]
    /\ UNCHANGED <<source, others, sessions, pause_requested, cancel_requested,
                   passed, appended>>

\* the handler giving up the record: the attachments left are not attempted
AttachmentError_AbortsRecord(t, rid, field, message) ==
    LET t1 == [t EXCEPT
                  !.stats.errors = @ + 1,
                  !.error_log = Append(@, [record_id |-> rid, field |-> field,
                                           error |-> message])]
    IN IF t.bi < Len(t.batch_records)
       THEN [t1 EXCEPT !.pc = "batch", !.bi = @ + 1, !.ai = 0]
       ELSE [t1 EXCEPT !.pc = "persist", !.bi = 0, !.ai = 0]

\* batch_engine.py:360-367 -- the attachment-level handler
AttachmentError(t, rid, field, message) ==
    AfterAttachment([t EXCEPT
        !.stats.errors = @ + 1,
        !.error_log = Append(@, [record_id |-> rid, field |-> field, error |-> message])])

\* batch_engine.py:320-339, 360-367 -- the download or the normalisation raises, or the
\* upload is refused for a reason other than a conflict
AttachmentFails(w) ==
    /\ tasks[w].pc = "awaitDownload"
    /\ MayRun(w)
    /\ LET t == tasks[w]
       IN tasks' = [tasks EXCEPT ![w] =
              AttachmentError(t, t.batch_records[t.bi], t.ai, "failed")]
    /\ UNCHANGED <<source, others, sessions, pause_requested, cancel_requested, images,
                   storage, passed, appended>>

\* batch_engine.py:335-339, 360-367 -- the bucket already holds the path: upload raises
UploadConflict(w) ==
    /\ tasks[w].pc = "awaitDownload"
    /\ MayRun(w)
    /\ LET t == tasks[w]
       IN /\ StoragePath(t.batch_records[t.bi], t.ai) \in storage
          /\ tasks' = [tasks EXCEPT ![w] =
                 AttachmentError(t, t.batch_records[t.bi], t.ai, "conflict")]
    /\ UNCHANGED <<source, others, sessions, pause_requested, cancel_requested, images,
                   storage, passed, appended>>

\* the record-level handler ending the batch: the records left are not processed
RecordError_AbortsBatch(t, rid, message) ==
    [t EXCEPT !.stats.errors = @ + 1,
              !.error_log = Append(@, [record_id |-> rid, field |-> 0, error |-> message]),
              !.pc = "persist", !.bi = 0, !.ai = 0]

\* batch_engine.py:253-260 -- the record-level handler of _process_batch (field 0: the
\* entry names no field), then the next record of the batch
RecordError(t, rid, message) ==
    LET t1 == [t EXCEPT
                  !.stats.errors = @ + 1,
                  !.error_log = Append(@, [record_id |-> rid, field |-> 0,
                                           error |-> message])]
    IN IF t.bi < Len(t.batch_records)
       THEN [t1 EXCEPT !.pc = "batch", !.bi = @ + 1, !.ai = 0]
       ELSE [t1 EXCEPT !.pc = "persist", !.bi = 0, !.ai = 0]

\* batch_engine.py:296, 253-260 -- image_exists raises (the ledger does not answer):
\* the call is outside the attachment-level try, the exception leaves _process_record
RecordFails(w) ==
    /\ tasks[w].pc = "batch"
    /\ tasks[w].ai > 0
    /\ LET t == tasks[w]
       IN tasks' = [tasks EXCEPT ![w] = RecordError(t, t.batch_records[t.bi], "failed")]
    /\ UNCHANGED <<source, others, sessions, pause_requested, cancel_requested, images,
                   storage, passed, appended>>

\* run_batch_sync polling the pause signal ahead of the cancel signal
Persist_PauseFirst(w) ==
    /\ tasks[w].pc = "persist"
    /\ ~tasks[w].final
    /\ LET t == tasks[w]
           id == t.sid
           stats == [t.stats EXCEPT !.batches_completed = @ + 1]
           saved == UpdateProgress(sessions, id, t.record_index, stats)
           flushed == IF t.error_log # <<>> THEN AppendErrors(saved, id, t.error_log)
                      ELSE saved
           t1 == [t EXCEPT !.stats = stats, !.error_log = <<>>, !.batch_records = <<>>]
       IN /\ appended' = [appended EXCEPT ![id] = @ \o t.error_log]
          /\ IF id \in pause_requested
             THEN /\ sessions' = SetStatus(flushed, id, "paused")
                  /\ tasks' = [tasks EXCEPT ![w] = IdleTask]
                  /\ pause_requested' = ClearRequests(pause_requested, id)
                  /\ cancel_requested' = ClearRequests(cancel_requested, id)
             ELSE IF id \in cancel_requested
             THEN /\ sessions' = SetStatus(flushed, id, "cancelled")
                  /\ tasks' = [tasks EXCEPT ![w] = IdleTask]
                  /\ pause_requested' = ClearRequests(pause_requested, id)
                  /\ cancel_requested' = ClearRequests(cancel_requested, id)
             ELSE /\ sessions' = flushed
                  /\ tasks' = [tasks EXCEPT ![w] =
                         [t1 EXCEPT !.pc = IF t.delay > 0 THEN "sleeping" ELSE "loop"]]
                  /\ UNCHANGED <<pause_requested, cancel_requested>>
    /\ UNCHANGED <<source, others, images, storage, passed>>

\* batch_engine.py:157-191 -- after a full batch: persist, flush, poll the signals
Persist(w) ==
    /\ tasks[w].pc = "persist"
    /\ ~tasks[w].final
    /\ LET t == tasks[w]
           id == t.sid
           stats == [t.stats EXCEPT !.batches_completed = @ + 1]
           saved == UpdateProgress(sessions, id, t.record_index, stats)
           flushed == IF t.error_log # <<>> THEN AppendErrors(saved, id, t.error_log)
                      ELSE saved
           t1 == [t EXCEPT !.stats = stats, !.error_log = <<>>, !.batch_records = <<>>]
       IN /\ appended' = [appended EXCEPT ![id] = @ \o t.error_log]
          /\ IF id \in cancel_requested
             THEN /\ sessions' = SetStatus(flushed, id, "cancelled")
                  /\ tasks' = [tasks EXCEPT ![w] = IdleTask]
                  /\ pause_requested' = ClearRequests(pause_requested, id)
                  /\ cancel_requested' = ClearRequests(cancel_requested, id)
             ELSE IF id \in pause_requested
             THEN /\ sessions' = SetStatus(flushed, id, "paused")
                  /\ tasks' = [tasks EXCEPT ![w] = IdleTask]
                  /\ pause_requested' = ClearRequests(pause_requested, id)
                  /\ cancel_requested' = ClearRequests(cancel_requested, id)
             ELSE /\ sessions' = flushed
                  /\ tasks' = [tasks EXCEPT ![w] =
                         [t1 EXCEPT !.pc = IF t.delay > 0 THEN "sleeping" ELSE "loop"]]
                  /\ UNCHANGED <<pause_requested, cancel_requested>>
    /\ UNCHANGED <<source, others, images, storage, passed>>

\* batch_engine.py:188-191 -- the inter-batch delay is over
Wake(w) ==
    /\ tasks[w].pc = "sleeping"
    /\ MayRun(w)
    /\ tasks' = [tasks EXCEPT ![w].pc = "loop"]
    /\ UNCHANGED <<source, others, sessions, pause_requested, cancel_requested, images,
                   storage, passed, appended>>

\* batch_engine.py:193-198 -- the source is exhausted: a trailing batch, if any
TrailingBatch(w) ==
    /\ tasks[w].pc = "tail"
    /\ tasks[w].batch_records # <<>>
    /\ tasks' = [tasks EXCEPT ![w].pc = "batch", ![w].bi = 1, ![w].ai = 0,
                              ![w].final = TRUE]
    /\ UNCHANGED <<source, others, sessions, pause_requested, cancel_requested, images,
                   storage, passed, appended>>

\* run_batch_sync returning at the end of the source without the final set_status
Complete_LeavesRunning(w) ==
    /\ tasks[w].pc = "tail"
    /\ tasks[w].batch_records = <<>>
    /\ tasks' = [tasks EXCEPT ![w] = IdleTask]
    /\ pause_requested' = ClearRequests(pause_requested, tasks[w].sid)
    /\ cancel_requested' = ClearRequests(cancel_requested, tasks[w].sid)
    /\ UNCHANGED <<source, others, sessions, images, storage, passed, appended>>

\* batch_engine.py:214-217, 229-232 -- no trailing batch: complete
Complete(w) ==
    /\ tasks[w].pc = "tail"
    /\ tasks[w].batch_records = <<>>
    /\ LET t == tasks[w]
           id == t.sid
       IN /\ sessions' = SetStatus(sessions, id, FinalStatus(t.stats.errors))
          /\ tasks' = [tasks EXCEPT ![w] = IdleTask]
          /\ pause_requested' = ClearRequests(pause_requested, id)
          /\ cancel_requested' = ClearRequests(cancel_requested, id)
    /\ UNCHANGED <<source, others, images, storage, passed, appended>>

\* run_batch_sync polling the signals after the trailing batch as it does after a
\* full one
PersistFinal_PollsSignals(w) ==
    /\ tasks[w].pc = "persist"
    /\ tasks[w].final
    /\ LET t == tasks[w]
           id == t.sid
           stats == [t.stats EXCEPT !.batches_completed = @ + 1]
           saved == UpdateProgress(sessions, id, t.record_index, stats)
           flushed == IF t.error_log # <<>> THEN AppendErrors(saved, id, t.error_log)
                      ELSE saved
       IN /\ appended' = [appended EXCEPT ![id] = @ \o t.error_log]
          /\ sessions' = SetStatus(flushed, id,
                             IF id \in cancel_requested THEN "cancelled"
                             ELSE IF id \in pause_requested THEN "paused"
                             ELSE FinalStatus(stats.errors))
          /\ tasks' = [tasks EXCEPT ![w] = IdleTask]
          /\ pause_requested' = ClearRequests(pause_requested, id)
          /\ cancel_requested' = ClearRequests(cancel_requested, id)
    /\ UNCHANGED <<source, others, images, storage, passed>>

\* batch_engine.py:198-217, 229-232 -- after the trailing batch: persist, flush, complete
PersistFinal(w) ==
    /\ tasks[w].pc = "persist"
    /\ tasks[w].final
    /\ LET t == tasks[w]
           id == t.sid
           stats == [t.stats EXCEPT !.batches_completed = @ + 1]
           saved == UpdateProgress(sessions, id, t.record_index, stats)
           flushed == IF t.error_log # <<>> THEN AppendErrors(saved, id, t.error_log)
                      ELSE saved
       IN /\ appended' = [appended EXCEPT ![id] = @ \o t.error_log]
          /\ sessions' = SetStatus(flushed, id, FinalStatus(stats.errors))
          /\ tasks' = [tasks EXCEPT ![w] = IdleTask]
          /\ pause_requested' = ClearRequests(pause_requested, id)
          /\ cancel_requested' = ClearRequests(cancel_requested, id)
    /\ UNCHANGED <<source, others, images, storage, passed>>

\* batch_engine.py:161-170, 200-209, 219-230 -- update_batch_sync raises.  The handler
\* writes to the same ledger: either the ledger answers again and the session is marked
\* failed, or append_errors raises in its turn and only the finally clause runs.
LedgerFails(w) ==
    /\ tasks[w].pc = "persist"
    /\ \/ Fatal(w)
       \/ /\ pause_requested' = ClearRequests(pause_requested, tasks[w].sid)
          /\ cancel_requested' = ClearRequests(cancel_requested, tasks[w].sid)
          /\ tasks' = [tasks EXCEPT ![w] = IdleTask]
          /\ UNCHANGED <<sessions, appended>>
    /\ UNCHANGED <<source, others, images, storage, passed>>

\* one step of background task w when no request to the report or to the bucket fails
\* (the bucket holds no object without a row)
TaskRuns(w) ==
    \/ WorkerStart(w)
    \/ PageArrives(w)
    \/ LoopBody(w)
    \/ RecordStart(w)
    \/ Attachment(w)
    \/ AttachmentSynced(w)
    \/ Persist(w)
    \/ Wake(w)
    \/ TrailingBatch(w)
    \/ Complete(w)
    \/ PersistFinal(w)

\* a request of background task w fails
TaskFails(w) ==
    \/ PageFails(w)
    \/ AttachmentFails(w)

(***************************************************************************)
(* Spec: the control plane and the background tasks in any interleaving.   *)
(***************************************************************************)
CtlRecord == [mtime |-> 1, atts |-> <<"http">>]

CtlConfigs == Configs(1..MaxBatchSize, {0, 1}, {0}, {FALSE})

Init ==
    /\ source \in {[i \in 1..n |-> CtlRecord] : n \in 1..CtlRecords}
    /\ images = {}
    /\ storage = {}
    /\ sessions = <<>>
    /\ pause_requested = {}
    /\ cancel_requested = {}
    /\ tasks = [w \in TaskIds |-> IdleTask]
    /\ passed = <<>>
    /\ appended = <<>>
    /\ OthersInit

Next ==
    \/ \E cfg \in CtlConfigs : StartBatchSync(cfg)
    \/ \E id \in 1..MaxSessions : PauseBatchSync(id)
    \/ \E id \in 1..MaxSessions : ResumeBatchSync(id)
    \/ \E id \in 1..MaxSessions : CancelBatchSync(id)
    \/ \E w \in TaskIds : TaskRuns(w)
    \/ \E w \in TaskIds : UploadConflict(w)

Spec == Init /\ [][Next]_vars

(***************************************************************************)
(* SpecSeq: one session, driven by an operator who starts it, may ask for  *)
(* a pause at any time and resumes it once its task has returned.  Page    *)
(* requests and attachments may fail.                                      *)
(***************************************************************************)
SeqRecordKinds ==
    {[mtime |-> 0, atts |-> <<>>],
     [mtime |-> 1, atts |-> <<"http">>],
     [mtime |-> 2, atts |-> <<"http">>],
     [mtime |-> 1, atts |-> <<"invalid", "http">>]}

SeqSources == UNION {[1..n -> SeqRecordKinds] : n \in 1..MaxRecords}

SeqConfigs == Configs(1..MaxBatchSize, {0, 1}, {0, 1}, {FALSE, TRUE})

\* the rows (and objects) of an earlier run: none, or the first attachment of record 1
RowsOf(keys) ==
    {[zoho_record_id |-> k[1], field_name |-> k[2],
      storage_path |-> StoragePath(k[1], k[2])] : k \in keys}

InitSeq ==
    /\ source \in SeqSources
    /\ \E keys \in {{}, {<<1, 1>>}} :
          /\ \A k \in keys : k[2] <= Len(source[k[1]].atts)
          /\ images = RowsOf(keys)
          /\ storage = {StoragePath(k[1], k[2]) : k \in keys}
    /\ sessions = <<>>
    /\ pause_requested = {}
    /\ cancel_requested = {}
    /\ tasks = [w \in TaskIds |-> IdleTask]
    /\ passed = <<>>
    /\ appended = <<>>
    /\ OthersInit

\* every background task has returned
Quiet == \A w \in TaskIds : tasks[w].pc = "idle"

SeqStart(cfg) ==
    /\ Quiet
    /\ sessions = <<>>
    /\ StartBatchSync(cfg)

SeqResume(id) ==
    /\ Quiet
    /\ ResumeBatchSync(id)

NextSeq ==
    \/ \E cfg \in SeqConfigs : SeqStart(cfg)
    \/ \E id \in 1..MaxSessions : PauseBatchSync(id)
    \/ \E id \in 1..MaxSessions : SeqResume(id)
    \/ \E w \in TaskIds : TaskRuns(w)
    \/ \E w \in TaskIds : TaskFails(w)

SpecSeq == InitSeq /\ [][NextSeq]_vars

(***************************************************************************)
(* SpecFail: SpecSeq with a ledger that may refuse a progress write.       *)
(***************************************************************************)
NextFail ==
    \/ \E cfg \in SeqConfigs : SeqStart(cfg)
    \/ \E id \in 1..MaxSessions : PauseBatchSync(id)
    \/ \E id \in 1..MaxSessions : SeqResume(id)
    \/ \E w \in TaskIds : TaskRuns(w)
    \/ \E w \in TaskIds : TaskFails(w)
    \/ \E w \in TaskIds : LedgerFails(w)

SpecFail == InitSeq /\ [][NextFail]_vars

(***************************************************************************)
(* SpecStop: one real session without a date_to bound, and an operator who *)
(* may pause, cancel and resume it.  Page requests and attachments may     *)
(* fail.                                                                   *)
(***************************************************************************)
NextStop ==
    \/ \E cfg \in CtlConfigs : SeqStart(cfg)
    \/ \E id \in 1..MaxSessions : PauseBatchSync(id)
    \/ \E id \in 1..MaxSessions : CancelBatchSync(id)
    \/ \E id \in 1..MaxSessions : SeqResume(id)
    \/ \E w \in TaskIds : TaskRuns(w)
    \/ \E w \in TaskIds : TaskFails(w)

SpecStop == InitSeq /\ [][NextStop]_vars

(***************************************************************************)
(* Properties of the resume cursor (SpecSeq).                              *)
(***************************************************************************)
\* C1: every value persisted as current_offset after a batch equals the number of
\* source records the run has enumerated so far, the records skipped for resumption
\* and the records filtered out by date_to included.
C1_OffsetCountsEnumerated ==
    [][\A w \in TaskIds :
          (tasks[w].pc = "persist" /\ tasks'[w].pc # "persist")
              => sessions'[tasks[w].sid].current_offset = tasks[w].seen]_vars

\* C2: a run that resumes from the persisted offset k hands no record with an index
\* below k to _process_record, and over the life of the session every record that
\* date_to does not exclude is handed to _process_record exactly once: never twice,
\* and once when the session has completed.
C2_ResumeExactlyOnce ==
    /\ \A w \in TaskIds :
          tasks[w].pc \notin {"idle", "sched"} =>
              /\ \A n \in 1..Len(tasks[w].batch_records) :
                    tasks[w].batch_records[n] > tasks[w].current_offset
              /\ \A i \in 1..Len(source) : passed[tasks[w].sid][i] <= 1
    /\ \A s \in DOMAIN sessions :
          sessions[s].status \in {"completed", "completed_with_errors"} =>
              \A i \in 1..Len(source) :
                  ~Filtered(source[i], sessions[s].date_to) => passed[s][i] = 1

(***************************************************************************)
(* Properties of the attachment pipeline (SpecSeq).                        *)
(***************************************************************************)
HasRow(rid, field) ==
    \E r \in images : r.zoho_record_id = rid /\ r.field_name = field

\* C7: when _process_record reaches an attachment whose (record id, field name)
\* already has a SyncedImage row, it issues no download, uploads nothing, writes no
\* row, adds one to images_skipped and nothing to images_synced, and the key still
\* has exactly one row.
C7_SecondAttemptSkips ==
    [][\A w \in TaskIds :
          (/\ tasks[w].pc = "batch"
           /\ tasks[w].ai > 0
           /\ HasRow(tasks[w].batch_records[tasks[w].bi], tasks[w].ai)
           /\ tasks'[w] # tasks[w])
          => /\ tasks'[w].pc # "awaitDownload"
             /\ storage' = storage
             /\ images' = images
             /\ tasks'[w].stats.images_skipped = tasks[w].stats.images_skipped + 1
             /\ tasks'[w].stats.images_synced = tasks[w].stats.images_synced
             /\ Cardinality({r \in images' :
                    /\ r.zoho_record_id = tasks[w].batch_records[tasks[w].bi]
                    /\ r.field_name = tasks[w].ai}) = 1]_vars

\* a real session has written a row and has later skipped an attachment
C7_Witness ==
    \E s \in DOMAIN sessions :
        /\ ~sessions[s].dry_run
        /\ sessions[s].images_synced > 0
        /\ sessions[s].images_skipped > 0

\* C9: no step of a dry-run task issues a download, uploads an object or writes a
\* SyncedImage row.
C9_DryRunWritesNothing ==
    [][\A w \in TaskIds :
          (/\ tasks[w].pc \notin {"idle", "sched"}
           /\ sessions[tasks[w].sid].dry_run)
          => /\ tasks'[w].pc # "awaitDownload"
             /\ storage' = storage
             /\ images' = images]_vars

\* a dry-run session has run to the end and has counted images
C9_Witness ==
    \E s \in DOMAIN sessions :
        /\ sessions[s].dry_run
        /\ sessions[s].status = "completed"
        /\ sessions[s].images_synced > 0

(***************************************************************************)
(* SpecDry: a dry-run session run to the end, then a real session with the *)
(* same date_to bound over the same report; nobody pauses.                 *)
(***************************************************************************)
DryStart(cfg) ==
    /\ Quiet
    /\ Len(sessions) <= 1
    /\ cfg.dry_run = (sessions = <<>>)
    /\ sessions # <<>> =>
          /\ sessions[1].status \in {"completed", "completed_with_errors"}
          /\ cfg.date_to = sessions[1].date_to
    /\ StartBatchSync(cfg)

NextDry ==
    \/ \E cfg \in SeqConfigs : DryStart(cfg)
    \/ \E w \in TaskIds : TaskRuns(w)
    \/ \E w \in TaskIds : TaskFails(w)

SpecDry == InitSeq /\ [][NextDry]_vars

Finished(s) ==
    /\ s \in DOMAIN sessions
    /\ sessions[s].status \in {"completed", "completed_with_errors"}

LogChunks == (1..MaxLogChunk) \cup {MaxErrors - 1, MaxErrors + 1}

MaxAppended == 2 * MaxErrors + MaxLogChunk

InitLog ==
    /\ source = <<>>
    /\ sessions = <<[NewSession([batch_size |-> 1, delay_between_batches |-> 0,
                                 date_to |-> 0, dry_run |-> FALSE])
                        EXCEPT !.status = "running"]>>
    /\ pause_requested = {}
    /\ cancel_requested = {}
    /\ tasks = [w \in TaskIds |-> IdleTask]
    /\ images = {}
    /\ storage = {}
    /\ passed = <<<<>>>>
    /\ appended = <<<<>>>>
    /\ OthersInit

\* models.py:441-450 -- a caller hands n new entries to append_errors
AppendErrorsCall(id, n) ==
    /\ Len(appended[id]) + n <= MaxAppended
    /\ LET new_errors == [k \in 1..n |->
                             [record_id |-> Len(appended[id]) + k, field |-> 0,
                              error |-> "failed"]]
       IN /\ sessions' = AppendErrors(sessions, id, new_errors)
          /\ appended' = [appended EXCEPT ![id] = @ \o new_errors]
    /\ UNCHANGED <<source, others, pause_requested, cancel_requested, tasks, images,
                   storage, passed>>

NextLog == \E n \in LogChunks : AppendErrorsCall(1, n)

SpecLog == InitLog /\ [][NextLog]_vars

\* the last n entries of a sequence
LastEntries(seq, n) ==
    IF Len(seq) <= n THEN seq ELSE [k \in 1..n |-> seq[Len(seq) - n + k]]

\* C8: the persisted error log never holds more than 1000 entries, and it holds the
\* most recently appended entries in the order in which they were appended.
C8_LogKeepsNewest ==
    \A s \in DOMAIN sessions :
        /\ Len(sessions[s].error_log) <= MaxErrors
        /\ sessions[s].error_log = LastEntries(appended[s], MaxErrors)

\* more than 1000 entries have been appended and the log is full
C8_Witness ==
    /\ Len(appended[1]) > MaxErrors
    /\ Len(sessions[1].error_log) = MaxErrors
    /\ sessions[1].error_log[1].record_id = Len(appended[1]) - MaxErrors + 1

(***************************************************************************)
(* Properties of the control plane (Spec).                                 *)
(***************************************************************************)
\* C3: the status of a session becomes paused or cancelled only at a batch boundary,
\* never while a task of that session has a batch partly processed.
C3_NoStatusChangeMidBatch ==
    [][\A s \in DOMAIN sessions :
          (/\ sessions'[s].status \in {"paused", "cancelled"}
           /\ sessions'[s].status # sessions[s].status)
          => \A w \in TaskIds :
                 tasks'[w].sid = s => tasks'[w].pc \notin {"batch", "awaitDownload", "persist"}]_vars

\* C4: at most one session is pending, running or paused, because no session is
\* created while another session is pending, running or paused.
C4_AtMostOneActiveSession ==
    [][Len(sessions') > Len(sessions)
          => \A s \in DOMAIN sessions : sessions[s].status \notin ActiveStatuses]_vars

\* C5: once the status of a session is cancelled, completed, completed_with_errors
\* or failed, no step changes it.
C5_TerminalStatusStays ==
    [][\A s \in DOMAIN sessions :
          sessions[s].status \in TerminalStatuses
              => sessions'[s].status = sessions[s].status]_vars

\* C6: at most one execution of run_batch_sync is active for a session id.
C6_OneRunPerSession ==
    \A v, w \in TaskIds :
        (/\ v # w
         /\ tasks[v].pc \notin {"idle", "sched"}
         /\ tasks[w].pc \notin {"idle", "sched"})
        => tasks[v].sid # tasks[w].sid

(***************************************************************************)
(* Properties of a run from its start to its exit.                         *)
(***************************************************************************)
CeilDiv(n, b) == (n + b - 1) \div b

\* C11 (SpecDry): a fresh session without a date_to bound that runs to the end without
\* an error has status completed, current_offset = n and batches_completed = ceil(n/b).
C11_FreshRunCompletes ==
    \A s \in DOMAIN sessions :
        (sessions[s].status = "completed" /\ sessions[s].date_to = 0)
        => /\ sessions[s].current_offset = Len(source)
           /\ sessions[s].batches_completed = CeilDiv(Len(source), sessions[s].batch_size)

\* a real session over a report that is not a whole number of batches has completed
C11_Witness ==
    \E s \in DOMAIN sessions :
        /\ sessions[s].status = "completed"
        /\ sessions[s].date_to = 0
        /\ ~sessions[s].dry_run
        /\ sessions[s].images_synced > 0
        /\ sessions[s].batch_size > 1
        /\ Len(source) > sessions[s].batch_size
        /\ Len(source) % sessions[s].batch_size # 0
        /\ sessions[s].batches_completed = Len(source) \div sessions[s].batch_size + 1

\* task w, the first run of its session, has processed its first batch under a pause signal
FirstBatchUnderPause(w) ==
    /\ tasks[w].pc = "persist"
    /\ tasks[w].current_offset = 0
    /\ tasks[w].stats.batches_completed = 0
    /\ tasks[w].sid \in pause_requested

\* the step of task w leaves its session paused after exactly the b records of the batch
PausedAfterFirstBatch(w) ==
    LET s == tasks[w].sid
        b == tasks[w].batch_size
    IN /\ sessions'[s].status = "paused"
       /\ sessions'[s].current_offset = b
       /\ sessions'[s].records_processed = b
       /\ tasks'[w] = IdleTask
       /\ \A i \in 1..Len(source) :
             passed'[s][i] = IF \E n \in 1..Len(tasks[w].batch_records) :
                                    tasks[w].batch_records[n] = i
                              THEN 1 ELSE 0

\* task w, resumed from the offset b of a pause after the first batch, completes its session
ResumedRunEnds(w) ==
    /\ tasks[w].pc \in {"tail", "persist"}
    /\ tasks[w].current_offset = tasks[w].batch_size
    /\ sessions'[tasks[w].sid].status \in {"completed", "completed_with_errors"}

C13_CancelAfterBatch ==
    [][\A w \in TaskIds :
          (/\ tasks[w].pc = "persist"
           /\ ~tasks[w].final
           /\ tasks[w].sid \in cancel_requested
           /\ tasks'[w] # tasks[w])
          => /\ sessions'[tasks[w].sid].status = "cancelled"
             /\ sessions'[tasks[w].sid].current_offset = tasks[w].record_index
             /\ tasks'[w] = IdleTask
             /\ passed' = passed]_vars

\* a task has processed a full batch while both signals were set for its session
C13_Witness ==
    \E w \in TaskIds :
        /\ tasks[w].pc = "persist"
        /\ ~tasks[w].final
        /\ tasks[w].sid \in cancel_requested
        /\ tasks[w].sid \in pause_requested
        /\ tasks[w].stats.images_synced > 0

\* task w returns from run_batch_sync in this step
Exits(w) == tasks[w].pc \notin {"idle", "sched"} /\ tasks'[w].pc = "idle"

\* C14 (SpecFail): when an exception escapes the main loop, a failed ledger write included,
\* the status ends as failed with a fatal_error entry at the end of the persisted log,
\* and no exit of run_batch_sync leaves the session in status running.
C14_FailureMarksFailed ==
    [][/\ \A s \in DOMAIN sessions :
             (sessions'[s].status = "failed" /\ sessions[s].status # "failed")
             => /\ sessions'[s].error_log # <<>>
                /\ sessions'[s].error_log[Len(sessions'[s].error_log)].error = "fatal_error"
       /\ \A w \in TaskIds :
             Exits(w) => sessions'[tasks[w].sid].status # "running"]_vars

\* C15 (SpecStop): when run_batch_sync exits, and when it starts, neither signal table holds
\* an entry for its session id, so that a run never sees a signal older than itself.
C15_SignalsCleared ==
    [][\A w \in TaskIds :
          (Exits(w) \/ (tasks[w].pc = "sched" /\ tasks'[w].pc # "sched"))
          => /\ tasks[w].sid \notin pause_requested'
             /\ tasks[w].sid \notin cancel_requested']_vars

\* a run has honoured a pause signal and has exited: the session is paused, the
\* signal is gone
C15_Witness ==
    \E s \in DOMAIN sessions :
        /\ sessions[s].status = "paused"
        /\ s \notin pause_requested
        /\ \A w \in TaskIds : tasks[w].pc = "idle"

\* C16 (SpecSeq): when a run sets the final status, the status is completed exactly when
\* the cumulative errors counter is 0; the counter covers every error of the session,
\* those of earlier runs included, and the progress of the last batch is persisted.
C16_FinalStatusFromErrors ==
    [][\A w \in TaskIds :
          LET s == tasks[w].sid
          IN (/\ tasks[w].pc \in {"tail", "persist"}
              /\ sessions'[s].status \in {"completed", "completed_with_errors"})
             => /\ (sessions'[s].status = "completed") <=> (sessions'[s].errors = 0)
                /\ sessions'[s].errors = Len(appended'[s])
                /\ sessions'[s].current_offset = tasks[w].record_index
                /\ sessions'[s].records_processed = tasks[w].stats.records_processed
                /\ \A n \in 1..Len(tasks[w].batch_records) :
                      passed[s][tasks[w].batch_records[n]] >= 1]_vars

\* a resumed run is about to complete after a trailing batch without an error, its
\* first batch; the errors it has counted are those of the runs before the resume
C16_Witness ==
    \E w \in TaskIds :
        /\ tasks[w].pc = "persist"
        /\ tasks[w].final
        /\ tasks[w].current_offset > 0
        /\ tasks[w].stats.batches_completed = sessions[tasks[w].sid].batches_completed
        /\ tasks[w].error_log = <<>>
        /\ tasks[w].stats.errors > 0

\* C17 (SpecFail): at every exit of run_batch_sync the persisted errors counter equals the
\* number of entries ever appended to the error log of the session.
C17_CounterMatchesLog ==
    [][\A w \in TaskIds :
          Exits(w) => sessions'[tasks[w].sid].errors = Len(appended'[tasks[w].sid])]_vars

(***************************************************************************)
(* The components outside the batch controller, each under a               *)
(* specification of its own in which the batch controller does not run.    *)
(***************************************************************************)
engine == <<source, sessions, pause_requested, cancel_requested, tasks, images,
            storage, passed, appended>>

EngineIdle ==
    /\ source = <<>>
    /\ sessions = <<>>
    /\ pause_requested = {}
    /\ cancel_requested = {}
    /\ tasks = [w \in TaskIds |-> IdleTask]
    /\ images = {}
    /\ storage = {}
    /\ passed = <<>>
    /\ appended = <<>>

(***************************************************************************)
(* SpecRate: RateLimiter.wait, zoho/client.py:38-53, called by coroutines  *)
(* of one event loop.  A coroutine yields where it waits for the lock and  *)
(* where it sleeps; a sleep ends at its deadline or later.  queue holds the *)
(* callers waiting for the lock in the order of their calls (asyncio.Lock  *)
(* serves its waiters first come, first served); called is the time of     *)
(* the caller's call, grants the times at which calls returned and waited  *)
(* the time each of them took.                                             *)
(***************************************************************************)
\* wait entering its body whether or not the lock is held
LockFree_Ignored(l) == TRUE

\* client.py:48 -- async with self._lock
LockFree(l) == l.lock = 0

\* wait sleeping for two intervals since the last call
WaitTime_TwoIntervals(l) == 2 * MinInterval - (l.now - l.last_call)

\* client.py:49-50
WaitTime(l) == MinInterval - (l.now - l.last_call)

\* client.py:53 and the end of the async with block: the call is granted
Granted(l, c) ==
    [l EXCEPT !.last_call = l.now, !.lock = 0, !.pc[c] = "idle", !.wake[c] = 0,
              !.grants = Append(@, l.now), !.waited = Append(@, l.now - l.called[c])]

\* client.py:46 -- a coroutine calls wait
WaitCalled(c) ==
    /\ limiter.pc[c] = "idle"
    /\ Len(limiter.grants) + Cardinality({d \in Callers : limiter.pc[d] # "idle"}) < MaxCalls
    /\ limiter' = [limiter EXCEPT !.pc[c] = "acquire", !.queue = Append(@, c),
                                  !.called[c] = limiter.now]
    /\ UNCHANGED <<engine, auth, processor, fetcher, runs, updates, sync>>

\* client.py:48-53 -- the lock is acquired; sleep, or grant at once
EnterWait(c) ==
    /\ limiter.pc[c] = "acquire"
    /\ Head(limiter.queue) = c
    /\ LockFree(limiter)
    /\ LET l == [limiter EXCEPT !.queue = Tail(@)]
       IN limiter' = IF WaitTime(l) > 0
                     THEN [l EXCEPT !.lock = c, !.pc[c] = "sleeping",
                                    !.wake[c] = l.now + WaitTime(l)]
                     ELSE Granted(l, c)
    /\ UNCHANGED <<engine, auth, processor, fetcher, runs, updates, sync>>

\* client.py:52-53 -- asyncio.sleep returns
SleepOver(c) ==
    /\ limiter.pc[c] = "sleeping"
    /\ limiter.now >= limiter.wake[c]
    /\ limiter' = Granted(limiter, c)
    /\ UNCHANGED <<engine, auth, processor, fetcher, runs, updates, sync>>

\* time.monotonic advances
ClockTicks ==
    /\ limiter.now < MaxTime
    /\ limiter' = [limiter EXCEPT !.now = @ + 1]
    /\ UNCHANGED <<engine, auth, processor, fetcher, runs, updates, sync>>

InitRate ==
    /\ EngineIdle
    /\ OthersInit

NextRate ==
    \/ \E c \in Callers : WaitCalled(c)
    \/ \E c \in Callers : EnterWait(c)
    \/ \E c \in Callers : SleepOver(c)
    \/ ClockTicks

SpecRate == InitRate /\ [][NextRate]_vars

(***************************************************************************)
(* SpecTimely: SpecRate on an event loop that is never late: the clock     *)
(* advances only when no caller can take a step, so that a sleep ends at   *)
(* its deadline and the lock is passed on at once.                         *)
(***************************************************************************)
CanStep(c) ==
    \/ limiter.pc[c] = "acquire" /\ Head(limiter.queue) = c /\ LockFree(limiter)
    \/ limiter.pc[c] = "sleeping" /\ limiter.now >= limiter.wake[c]

TimelyTick ==
    /\ \A c \in Callers : ~CanStep(c)
    /\ ClockTicks

NextTimely ==
    \/ \E c \in Callers : WaitCalled(c)
    \/ \E c \in Callers : EnterWait(c)
    \/ \E c \in Callers : SleepOver(c)
    \/ TimelyTick

SpecTimely == InitRate /\ [][NextTimely]_vars

\* C18 (SpecRate): two successive returns of wait are at least min_interval apart on the
\* clock, and a caller inside the read-and-update of last_call holds the lock, so that
\* no two callers are inside it together.
C18_GrantsSpaced ==
    /\ \A k \in 1..(Len(limiter.grants) - 1) :
          limiter.grants[k + 1] - limiter.grants[k] >= MinInterval
    /\ \A c \in Callers : limiter.pc[c] = "sleeping" => limiter.lock = c

\* two calls have been granted, a third caller sleeps under the lock and another
\* waits for it
C18_Witness ==
    /\ Len(limiter.grants) >= 2
    /\ \E c, d \in Callers : limiter.pc[c] = "sleeping" /\ limiter.pc[d] = "acquire"

(***************************************************************************)
(* SpecAuth: ZohoAuth.get_access_token, zoho/auth.py:19-44, called by      *)
(* coroutines of one event loop.  A coroutine yields at the POST to the    *)
(* token endpoint; every answer of the endpoint carries a new token.       *)
(***************************************************************************)
\* auth.py:20
TokenUsable(a) == a.access_token # 0 /\ a.fresh

\* auth.py:19-36 -- get_access_token up to its return or up to the POST
GetAccessToken(c) ==
    /\ auth.pc[c] = "idle"
    /\ IF TokenUsable(auth)
       THEN auth' = [auth EXCEPT !.got[c] = auth.access_token]
       ELSE /\ auth.issued < MaxRefreshes
            /\ auth' = [auth EXCEPT !.issued = @ + 1, !.request[c] = auth.issued + 1,
                                    !.pc[c] = "refreshing"]
    /\ UNCHANGED <<engine, limiter, processor, fetcher, runs, updates, sync>>

\* auth.py:37-44, 24 -- the endpoint answers: store the token, return it
RefreshReturns(c) ==
    /\ auth.pc[c] = "refreshing"
    /\ auth' = [auth EXCEPT !.access_token = auth.request[c], !.fresh = TRUE,
                            !.got[c] = auth.request[c], !.request[c] = 0,
                            !.pc[c] = "idle"]
    /\ UNCHANGED <<engine, limiter, processor, fetcher, runs, updates, sync>>

\* auth.py:37 -- raise_for_status raises: the caller gets no token
RefreshFails(c) ==
    /\ auth.pc[c] = "refreshing"
    /\ auth' = [auth EXCEPT !.got[c] = 0, !.request[c] = 0, !.pc[c] = "idle"]
    /\ UNCHANGED <<engine, limiter, processor, fetcher, runs, updates, sync>>

\* auth.py:20, 42 -- datetime.now() passes _token_expires
TokenExpires ==
    /\ auth.fresh
    /\ auth' = [auth EXCEPT !.fresh = FALSE]
    /\ UNCHANGED <<engine, limiter, processor, fetcher, runs, updates, sync>>

NextAuth ==
    \/ \E c \in Callers : GetAccessToken(c)
    \/ \E c \in Callers : RefreshReturns(c)
    \/ \E c \in Callers : RefreshFails(c)
    \/ TokenExpires

SpecAuth == InitRate /\ [][NextAuth]_vars

\* C19 (SpecAuth): at most one refresh request is in flight at any time, whatever the
\* number of callers that found the cached token absent or expired.
C19_SingleRefreshInFlight ==
    Cardinality({c \in Callers : auth.pc[c] = "refreshing"}) <= 1

(***************************************************************************)
(* SpecProc: ImageProcessor.process_if_needed, sync/processor.py:65-76.    *)
(* A payload is its byte length and the image format its content has       *)
(* ("none": Pillow cannot open it); a filename is a sequence of parts, the *)
(* part "." being a dot.                                                   *)
(***************************************************************************)
NameParts == {"a", ".", "jpg", "JPG"}

Filenames == UNION {[1..n -> NameParts] : n \in 1..MaxNameLen}

\* width and height of the images: within the limit, at the limit, and wider or
\* higher than the limit
ImageSizes ==
    {<<3000, 2000>>, <<4000, 4000>>, <<6000, 3000>>, <<3000, 6000>>,
     <<4210, 3000>>, <<5618, 2809>>}

Payloads ==
    [len : {0, 12, MaxSizeBytes - 1, MaxSizeBytes, MaxSizeBytes + 1},
     format : {"jpeg", "png", "none"},
     size : ImageSizes]

\* needs_processing with the test len(image_bytes) >= self.max_size_bytes
NeedsProcessing_AtThreshold(image_bytes) == image_bytes.len >= MaxSizeBytes

\* processor.py:22-23
NeedsProcessing(image_bytes) == image_bytes.len > MaxSizeBytes

\* str.lower on one part of a filename
Lower(part) == IF part = "JPG" THEN "jpg" ELSE part

\* processor.py:81-83 -- the filename ends with an image extension
HasImageExtension(filename) ==
    /\ Len(filename) >= 2
    /\ filename[Len(filename) - 1] = "."
    /\ Lower(filename[Len(filename)]) \in
          {"jpg", "jpeg", "png", "gif", "webp", "heic", "bmp", "tiff"}

\* processor.py:56, 89 -- filename.rsplit(".", 1)[0] if "." in filename else filename
BaseName(filename) ==
    LET dots == {i \in 1..Len(filename) : filename[i] = "."}
    IN IF dots = {} THEN filename ELSE SubSeq(filename, 1, Max(dots) - 1)

\* processor.py:92-127 -- the extension read from the content
DetectFormat(image_bytes) ==
    IF image_bytes.len < 12 THEN "jpg"
    ELSE IF image_bytes.format = "jpeg" THEN "jpg"
    ELSE IF image_bytes.format = "png" THEN "png"
    ELSE "jpg"

\* processor.py:78-90
EnsureExtension(image_bytes, filename) ==
    IF HasImageExtension(filename) THEN filename
    ELSE BaseName(filename) \o <<".", DetectFormat(image_bytes)>>

(***************************************************************************)
(* Python floats.  A positive float is mant * 2^exp, mant a sequence of    *)
(* MantissaBits bits, the most significant first and equal to 1.  Division *)
(* and multiplication round the exact result to the nearest float, a tie   *)
(* to the float whose last bit is 0; int() truncates.                      *)
(***************************************************************************)
RECURSIVE ScaleQuotient(_, _, _)
\* a * 2^-s and b such that 1 <= a / b < 2
ScaleQuotient(a, b, s) ==
    IF a < b THEN ScaleQuotient(2 * a, b, s - 1)
    ELSE IF a >= 2 * b THEN ScaleQuotient(a, 2 * b, s + 1)
    ELSE [a |-> a, b |-> b, s |-> s]

RECURSIVE QuotientBits(_, _, _)
\* the first n >= 1 bits of r / b, r < 2 * b, and twice the remainder left: long
\* division, the first half of the bits and then the other half
QuotientBits(r, b, n) ==
    IF n = 1
    THEN IF r >= b THEN [bits |-> <<1>>, rest |-> 2 * (r - b)]
                   ELSE [bits |-> <<0>>, rest |-> 2 * r]
    ELSE LET first == QuotientBits(r, b, n \div 2)
             second == QuotientBits(first.rest, b, n - n \div 2)
         IN [bits |-> first.bits \o second.bits, rest |-> second.rest]

\* bits + 1, on as many bits (all ones wrap to all zeros): the last 0 becomes 1
\* and the ones after it 0
IncrementBits(bits) ==
    LET zeros == {i \in 1..Len(bits) : bits[i] = 0}
        k == IF zeros = {} THEN 0 ELSE CHOOSE i \in zeros : \A j \in zeros : j <= i
    IN [i \in 1..Len(bits) |-> IF i < k THEN bits[i] ELSE IF i = k THEN 1 ELSE 0]

\* round to nearest, ties to even: bits * 2^exp plus a discarded part that is
\* below ("lo"), equal to ("half") or above ("hi") half a unit of the last bit
RoundFloat(bits, exp, discarded) ==
    LET up == discarded = "hi" \/ (discarded = "half" /\ bits[Len(bits)] = 1)
    IN IF ~up THEN [mant |-> bits, exp |-> exp]
       ELSE IF \A i \in 1..Len(bits) : bits[i] = 1
            THEN [mant |-> <<1>> \o [i \in 1..(Len(bits) - 1) |-> 0], exp |-> exp + 1]
            ELSE [mant |-> IncrementBits(bits), exp |-> exp]

\* a / b for positive integers a and b
FloatDivide(a, b) ==
    LET n == ScaleQuotient(a, b, 0)
        q == QuotientBits(n.a, n.b, MantissaBits)
    IN RoundFloat(q.bits, n.s - (MantissaBits - 1),
                  IF q.rest > n.b THEN "hi" ELSE IF q.rest = n.b THEN "half" ELSE "lo")

RECURSIVE IntBits(_)
\* the bits of a natural number, none for 0
IntBits(n) == IF n = 0 THEN <<>> ELSE IntBits(n \div 2) \o <<n % 2>>

RECURSIVE BitsInt(_)
BitsInt(bits) ==
    IF bits = <<>> THEN 0
    ELSE 2 * BitsInt(SubSeq(bits, 1, Len(bits) - 1)) + bits[Len(bits)]

Reverse(s) == [i \in 1..Len(s) |-> s[Len(s) + 1 - i]]

RECURSIVE ProductBits(_, _, _)
\* long multiplication, the least significant bit first: the last Len(bits) bits
\* of n * bits + carry and the carry out of them, the low half of the bits and
\* then the high half
ProductBits(bits, n, carry) ==
    IF Len(bits) = 1
    THEN [bits |-> <<(n * bits[1] + carry) % 2>>, carry |-> (n * bits[1] + carry) \div 2]
    ELSE LET half == Len(bits) \div 2
             low == ProductBits(SubSeq(bits, 1, half), n, carry)
             high == ProductBits(SubSeq(bits, half + 1, Len(bits)), n, low.carry)
         IN [bits |-> low.bits \o high.bits, carry |-> high.carry]

\* n * x for a positive integer n and a float x
FloatTimes(n, x) ==
    LET product == ProductBits(Reverse(x.mant), n, 0)
        p == IntBits(product.carry) \o Reverse(product.bits)
        extra == Len(p) - MantissaBits
        low == SubSeq(p, MantissaBits + 1, Len(p))
    IN RoundFloat(SubSeq(p, 1, MantissaBits), x.exp + extra,
                  IF extra = 0 \/ low[1] = 0 THEN "lo"
                  ELSE IF \E i \in 2..extra : low[i] = 1 THEN "hi"
                  ELSE "half")

\* a < b for bit sequences of one length
BitsLess(a, b) ==
    \E i \in 1..Len(a) : a[i] < b[i] /\ \A j \in 1..(i - 1) : a[j] = b[j]

\* min(x, y)
FloatMin(x, y) ==
    IF y.exp < x.exp \/ (y.exp = x.exp /\ BitsLess(y.mant, x.mant)) THEN y ELSE x

\* int(x) for a float x below 2^MantissaBits
FloatInt(x) ==
    IF MantissaBits + x.exp <= 0 THEN 0
    ELSE BitsInt(SubSeq(x.mant, 1, MantissaBits + x.exp))

\* the resize with one ratio per axis
NewSize_PerAxis(width, height) ==
    IF width > MaxDimension \/ height > MaxDimension
    THEN <<IF width > MaxDimension
           THEN FloatInt(FloatTimes(width, FloatDivide(MaxDimension, width)))
           ELSE width,
           IF height > MaxDimension
           THEN FloatInt(FloatTimes(height, FloatDivide(MaxDimension, height)))
           ELSE height>>
    ELSE <<width, height>>

\* processor.py:43-47 -- the size of the image after the resize, if any
NewSize(width, height) ==
    IF width > MaxDimension \/ height > MaxDimension
    THEN LET ratio == FloatMin(FloatDivide(MaxDimension, width),
                               FloatDivide(MaxDimension, height))
         IN <<FloatInt(FloatTimes(width, ratio)), FloatInt(FloatTimes(height, ratio))>>
    ELSE <<width, height>>

\* processor.py:25-63 -- resize and re-encode as WebP (new_len bytes), or give the
\* input back when Pillow cannot open it
Process(image_bytes, original_filename, new_len) ==
    IF image_bytes.format = "none"
    THEN [bytes |-> image_bytes, filename |-> original_filename]
    ELSE [bytes |-> [len |-> new_len, format |-> "webp",
                     size |-> NewSize(image_bytes.size[1], image_bytes.size[2])],
          filename |-> BaseName(original_filename) \o <<".", "webp">>]

\* processor.py:65-76
ProcessIfNeeded(image_bytes, filename, new_len) ==
    IF NeedsProcessing(image_bytes)
    THEN LET r == Process(image_bytes, filename, new_len)
         IN [bytes |-> r.bytes, filename |-> r.filename, was_processed |-> TRUE]
    ELSE [bytes |-> image_bytes,
          filename |-> EnsureExtension(image_bytes, filename),
          was_processed |-> FALSE]

\* batch_engine.py:324-326 -- a call of process_if_needed
ProcessIfNeededCalled ==
    /\ ~processor.called
    /\ \E image_bytes \in Payloads, filename \in Filenames, new_len \in {12, MaxSizeBytes + 1} :
          processor' = [called |-> TRUE, image_bytes |-> image_bytes,
                        filename |-> filename,
                        result |-> ProcessIfNeeded(image_bytes, filename, new_len)]
    /\ UNCHANGED <<engine, limiter, auth, fetcher, runs, updates, sync>>

NextProc == ProcessIfNeededCalled

SpecProc == InitRate /\ [][NextProc]_vars

\* C20 (SpecProc): process_if_needed normalises exactly when the byte length is strictly
\* greater than the threshold; at or below it, it returns the input bytes unchanged
\* with was_processed = false, and a filename that differs from the input at most in
\* its extension.
C20_ProcessOnlyAboveThreshold ==
    processor.called =>
        /\ processor.result.was_processed <=> (processor.image_bytes.len > MaxSizeBytes)
        /\ (processor.image_bytes.len > MaxSizeBytes /\ processor.image_bytes.format # "none")
           => processor.result.bytes.format = "webp"
        /\ processor.image_bytes.len <= MaxSizeBytes
           => /\ processor.result.bytes = processor.image_bytes
              /\ ~processor.result.was_processed
              /\ \/ processor.result.filename = processor.filename
                 \/ BaseName(processor.result.filename) = BaseName(processor.filename)

\* a payload of exactly the threshold, with a filename without an image extension, has
\* come back unchanged under a corrected filename
C20_Witness ==
    /\ processor.called
    /\ processor.image_bytes.len = MaxSizeBytes
    /\ processor.image_bytes.format = "png"
    /\ ~HasImageExtension(processor.filename)
    /\ processor.result.bytes = processor.image_bytes
    /\ processor.result.filename # processor.filename
    /\ ~processor.result.was_processed

\* the call resized the image: process ran on an image Pillow can open with a
\* side above max_dimension
Resized ==
    /\ processor.called
    /\ processor.result.was_processed
    /\ processor.image_bytes.format # "none"
    /\ \/ processor.image_bytes.size[1] > MaxDimension
       \/ processor.image_bytes.size[2] > MaxDimension

\* side * max_dimension / longer side truncated, in exact arithmetic
ExactSide(side, size) == (side * MaxDimension) \div Max({size[1], size[2]})

C30_ExtensionFromContent ==
    (processor.called /\ processor.image_bytes.len <= MaxSizeBytes) =>
        LET name == processor.result.filename
        IN /\ Len(name) >= 2
           /\ name[Len(name) - 1] = "."
           /\ Lower(name[Len(name)]) = DetectFormat(processor.image_bytes)

\* the modification timestamp of the record is readable and exceeds the bound
ExceedsDateTo(rec, date_to) == date_to # 0 /\ rec.mtime > date_to

\* C29 (SpecSeq): a record whose modification timestamp exceeds date_to is never passed
\* to process-record and changes neither records_processed nor errors (nor the batch
\* nor the error buffer); a record whose timestamp is absent or unparsable is not
\* filtered: it joins the batch, and it has been processed when the session completes.
C29_DateToFilter ==
    [][/\ \A w \in TaskIds :
             LET t == tasks[w]
             IN (/\ t.pc = "loop"
                 /\ t.page # <<>>
                 /\ t.record_index >= t.current_offset
                 /\ tasks'[w] # t)
                => /\ ExceedsDateTo(source[Head(t.page)], t.date_to)
                      => /\ tasks'[w].stats = t.stats
                         /\ tasks'[w].batch_records = t.batch_records
                         /\ tasks'[w].error_log = t.error_log
                         /\ passed' = passed
                   /\ source[Head(t.page)].mtime = 0
                      => tasks'[w].batch_records = Append(t.batch_records, Head(t.page))
       /\ \A s \in DOMAIN sessions' : \A i \in DOMAIN source :
             /\ ExceedsDateTo(source[i], sessions'[s].date_to) => passed'[s][i] = 0
             /\ (/\ source[i].mtime = 0
                 /\ sessions'[s].status \in {"completed", "completed_with_errors"})
                => passed'[s][i] >= 1]_vars

\* a session with a date_to bound has completed: a record without a timestamp was
\* processed, a record after the bound was not
C29_Witness ==
    \E s \in DOMAIN sessions : \E i, j \in DOMAIN source :
        /\ sessions[s].status = "completed"
        /\ sessions[s].date_to # 0
        /\ source[i].mtime = 0
        /\ passed[s][i] = 1
        /\ source[j].mtime > sessions[s].date_to
        /\ passed[s][j] = 0
        /\ sessions[s].records_processed = Len(source) - 1

(***************************************************************************)
(* SpecFetch: ZohoCreatorClient.fetch_records, zoho/client.py:105-145,     *)
(* consumed to its end over a stable report.  yielded is the sequence of   *)
(* the records handed to the consumer, cooldowns and failures count the    *)
(* 429 answers and the other failed requests.                              *)
(***************************************************************************)
FetchSources ==
    UNION {[1..n -> {[mtime |-> 0, atts |-> <<>>]}] : n \in 0..MaxRecords}

\* the report's answer to "from" = from_index, "limit" = page_size
FetchPage(from_index, page_size) ==
    [k \in 1..(IF from_index >= Len(source) THEN 0
               ELSE IF from_index + page_size <= Len(source) THEN page_size
               ELSE Len(source) - from_index) |-> from_index + k]

\* a 429 after which the next page is requested
AfterRateLimit_Advances(f) ==
    [f EXCEPT !.pc = "cooldown", !.cooldowns = @ + 1, !.from_index = @ + f.page_size]

\* client.py:129-134 -- a 429: sleep, then continue with from_index as it is
AfterRateLimit(f) == [f EXCEPT !.pc = "cooldown", !.cooldowns = @ + 1]

\* the cursor advancing by one record
AdvanceCursor_ByOne(f) == [f EXCEPT !.pc = "request", !.from_index = @ + 1]

\* client.py:144 -- the page is exhausted
AdvanceCursor(f) == [f EXCEPT !.pc = "request", !.from_index = @ + f.page_size]

\* client.py:105-124 -- the consumer starts the generator
FetchRecordsCalled(page_size) ==
    /\ fetcher.pc = "idle"
    /\ fetcher' = [fetcher EXCEPT !.pc = "request", !.page_size = page_size,
                                  !.from_index = 0]
    /\ UNCHANGED <<engine, limiter, auth, processor, runs, updates, sync>>

\* client.py:126-128, 137-139 -- the page arrives; an empty page ends the generator
PageReturns ==
    /\ fetcher.pc = "request"
    /\ LET records == FetchPage(fetcher.from_index, fetcher.page_size)
       IN fetcher' = IF records = <<>>
                     THEN [fetcher EXCEPT !.pc = "done"]
                     ELSE [fetcher EXCEPT !.pc = "yield", !.page = records]
    /\ UNCHANGED <<engine, limiter, auth, processor, runs, updates, sync>>

\* client.py:129-133 -- the request is answered with status 429
RateLimited ==
    /\ fetcher.pc = "request"
    /\ fetcher.cooldowns < MaxCooldowns
    /\ fetcher' = AfterRateLimit(fetcher)
    /\ UNCHANGED <<engine, limiter, auth, processor, runs, updates, sync>>

\* client.py:133-134 -- the sleep of 60 s is over: continue
CooldownOver ==
    /\ fetcher.pc = "cooldown"
    /\ fetcher' = [fetcher EXCEPT !.pc = "request"]
    /\ UNCHANGED <<engine, limiter, auth, processor, runs, updates, sync>>

\* client.py:92-103, 126-135 -- the request fails otherwise (another status, or the
\* network): _make_request raises, fetch_records re-raises to the consumer
RequestFails ==
    /\ fetcher.pc = "request"
    /\ fetcher' = [fetcher EXCEPT !.pc = "raised", !.failures = @ + 1]
    /\ UNCHANGED <<engine, limiter, auth, processor, runs, updates, sync>>

\* client.py:141-144 -- the next record of the page is yielded; after the last one
\* the cursor advances
YieldRecord ==
    /\ fetcher.pc = "yield"
    /\ LET f == [fetcher EXCEPT !.yielded = Append(@, Head(fetcher.page)),
                                !.page = Tail(@)]
       IN fetcher' = IF f.page = <<>> THEN AdvanceCursor(f) ELSE f
    /\ UNCHANGED <<engine, limiter, auth, processor, runs, updates, sync>>

InitFetch ==
    /\ source \in FetchSources
    /\ sessions = <<>>
    /\ pause_requested = {}
    /\ cancel_requested = {}
    /\ tasks = [w \in TaskIds |-> IdleTask]
    /\ images = {}
    /\ storage = {}
    /\ passed = <<>>
    /\ appended = <<>>
    /\ OthersInit

NextFetch ==
    \/ \E page_size \in 1..PageSize : FetchRecordsCalled(page_size)
    \/ PageReturns
    \/ RateLimited
    \/ CooldownOver
    \/ RequestFails
    \/ YieldRecord

SpecFetch == InitFetch /\ [][NextFetch]_vars

\* the records yielded are the first records of the report, in order, each once
YieldedInOrder(f) == f.yielded = [k \in 1..Len(f.yielded) |-> k]

\* C26 (SpecFetch): a 429 answer leaves from_index unchanged and the same page is
\* requested again after the cooldown; whatever the number of 429 answers, no
\* record is yielded twice and none is skipped.
C26_RateLimitKeepsCursor ==
    [][/\ (fetcher.pc = "request" /\ fetcher'.pc = "cooldown")
          => /\ fetcher'.from_index = fetcher.from_index
             /\ fetcher'.yielded = fetcher.yielded
             /\ fetcher'.cooldowns = fetcher.cooldowns + 1
       /\ (fetcher.pc = "cooldown" /\ fetcher' # fetcher)
          => /\ fetcher'.pc = "request"
             /\ fetcher'.from_index = fetcher.from_index
             /\ fetcher'.page_size = fetcher.page_size
       /\ YieldedInOrder(fetcher')
       /\ fetcher'.pc = "done" => Len(fetcher'.yielded) = Len(source)]_vars

\* the stream has ended after two 429 answers and every record of a report of more
\* than one page was yielded
C26_Witness ==
    /\ fetcher.pc = "done"
    /\ fetcher.cooldowns = MaxCooldowns
    /\ Len(source) > fetcher.page_size
    /\ Len(fetcher.yielded) = Len(source)

\* C27 (SpecFetch): a page request that fails with an error other than 429 is retried
\* before the failure is propagated: a single failure does not end the stream.
C27_TransientFailureRetried ==
    fetcher.pc = "raised" => fetcher.failures > 1

\* C28 (SpecFetch): over a stable report of n records and for any page size, the
\* records yielded are the records 1..n in report order, each once; the cursor
\* advances by one page size per non-empty page; the stream stops at the first
\* empty page.
C28_PagesInOrder ==
    /\ YieldedInOrder(fetcher)
    /\ Len(fetcher.yielded) <= Len(source)
    /\ fetcher.pc \in {"request", "cooldown", "done", "raised"}
       => fetcher.from_index = fetcher.page_size * CeilDiv(Len(fetcher.yielded), fetcher.page_size)
    /\ fetcher.pc = "yield"
       => /\ fetcher.page # <<>>
          /\ fetcher.page[1] = Len(fetcher.yielded) + 1
          /\ fetcher.from_index = fetcher.page_size * ((Len(fetcher.yielded) \div fetcher.page_size))
    /\ fetcher.pc = "done"
       => /\ Len(fetcher.yielded) = Len(source)
          /\ FetchPage(fetcher.from_index, fetcher.page_size) = <<>>
          /\ fetcher.from_index < Len(source) + fetcher.page_size

\* a report of three records was read in pages of two: two non-empty pages, the
\* second one short, then the empty page
C28_Witness ==
    /\ fetcher.pc = "done"
    /\ fetcher.page_size = 2
    /\ fetcher.yielded = <<1, 2, 3>>
    /\ fetcher.from_index = 4
    /\ fetcher.failures = 0

(***************************************************************************)
(* SpecRuns: the sync_runs ledger under its three writers, the manual      *)
(* trigger and the quick batch of api/routes.py and the scheduled job of   *)
(* main.py.  rows is the table in insertion order (get_recent_runs(1) is   *)
(* its last row), tasks the runs whose run_sync is in progress, job the    *)
(* run of the scheduled job (0: the job is not running).  The repository   *)
(* client is synchronous: a handler's check and its start_run are one      *)
(* step of the event loop.                                                 *)
(***************************************************************************)
\* routes.py:63-66, 215-217 -- the test that answers 409
SyncInProgress ==
    runs.rows # <<>> /\ runs.rows[Len(runs.rows)] = "running"

\* models.py:286-290 -- start_run inserts a row with status running
StartRun == Append(runs.rows, "running")

\* routes.py:53-80 -- POST /sync
TriggerSync ==
    /\ Len(runs.rows) < MaxRuns
    /\ ~SyncInProgress
    /\ runs' = [runs EXCEPT !.rows = StartRun, !.tasks = @ \cup {Len(StartRun)}]
    /\ UNCHANGED <<engine, limiter, auth, processor, fetcher, updates, sync>>

\* routes.py:195-240 -- POST /sync/quick-batch: the background task calls run_sync
\* with the keyword added_before, which run_sync does not take (engine.py:42): the
\* call raises TypeError and the row is never completed
StartQuickBatch ==
    /\ Len(runs.rows) < MaxRuns
    /\ ~SyncInProgress
    /\ runs' = [runs EXCEPT !.rows = StartRun]
    /\ UNCHANGED <<engine, limiter, auth, processor, fetcher, updates, sync>>

\* main.py:77-85 with engine.py:50-51 -- the cron job fires (one instance of the job
\* at a time): run_sync without run_id starts a run of its own
ScheduledSync ==
    /\ Len(runs.rows) < MaxRuns
    /\ runs.job = 0
    /\ runs' = [runs EXCEPT !.rows = StartRun, !.tasks = @ \cup {Len(StartRun)},
                            !.job = Len(StartRun)]
    /\ UNCHANGED <<engine, limiter, auth, processor, fetcher, updates, sync>>

\* engine.py:90-97 with models.py:313-321 -- run_sync ends: complete_run
RunCompletes(id, status) ==
    /\ id \in runs.tasks
    /\ runs' = [runs EXCEPT !.rows[id] = status, !.tasks = @ \ {id},
                            !.job = IF @ = id THEN 0 ELSE @]
    /\ UNCHANGED <<engine, limiter, auth, processor, fetcher, updates, sync>>

NextRuns ==
    \/ TriggerSync
    \/ StartQuickBatch
    \/ ScheduledSync
    \/ \E id \in 1..MaxRuns, status \in {"completed", "completed_with_errors", "failed"} :
          RunCompletes(id, status)

SpecRuns == InitRate /\ [][NextRuns]_vars

\* C22 (SpecRuns): for any interleaving of manual sync triggers, quick-batch triggers
\* and the scheduled sync job, at most one SyncRun has status running at any time.
C22_AtMostOneRunning ==
    Cardinality({id \in DOMAIN runs.rows : runs.rows[id] = "running"}) <= 1

(***************************************************************************)
(* SpecBatch: one real session without a date_to bound, run to its end,    *)
(* in which a download, an upload or a query of the image ledger may fail. *)
(***************************************************************************)
BatchRecordKinds ==
    {[mtime |-> 1, atts |-> <<"http">>],
     [mtime |-> 1, atts |-> <<"invalid", "http">>],
     [mtime |-> 1, atts |-> <<"http", "http">>]}

BatchSources == UNION {[1..n -> BatchRecordKinds] : n \in 1..MaxRecords}

InitBatch ==
    /\ source \in BatchSources
    /\ \E keys \in {{}, {<<1, 1>>}} :
          /\ images = RowsOf(keys)
          /\ storage = {StoragePath(k[1], k[2]) : k \in keys}
    /\ sessions = <<>>
    /\ pause_requested = {}
    /\ cancel_requested = {}
    /\ tasks = [w \in TaskIds |-> IdleTask]
    /\ passed = <<>>
    /\ appended = <<>>
    /\ OthersInit

NextBatch ==
    \/ \E cfg \in CtlConfigs : SeqStart(cfg)
    \/ \E w \in TaskIds : TaskRuns(w)
    \/ \E w \in TaskIds : TaskFails(w)
    \/ \E w \in TaskIds : RecordFails(w)

SpecBatch == InitBatch /\ [][NextBatch]_vars

\* the entries of log that the record-level handler wrote for record rid
RecordEntries(log, rid) ==
    {n \in 1..Len(log) : log[n].record_id = rid /\ log[n].field = 0}

C24_AttachmentFailureIsLocal ==
    [][\A w \in TaskIds :
          LET t == tasks[w]
              u == tasks'[w]
          IN /\ (t.pc = "awaitDownload" /\ u # t)
                => \/ /\ u.stats.images_synced = t.stats.images_synced + 1
                      /\ u.stats.errors = t.stats.errors
                      /\ u.error_log = t.error_log
                   \/ /\ u.stats.images_synced = t.stats.images_synced
                      /\ u.stats.errors = t.stats.errors + 1
                      /\ Len(u.error_log) = Len(t.error_log) + 1
                      /\ u.error_log[Len(u.error_log)].field = t.ai
             /\ (/\ t.pc \in {"batch", "awaitDownload"}
                 /\ t.ai > 0
                 /\ Len(u.error_log) > Len(t.error_log)
                 /\ u.error_log[Len(u.error_log)].field # 0)
                => /\ u.stats.errors = t.stats.errors + 1
                   /\ u.error_log = Append(t.error_log, u.error_log[Len(u.error_log)])
                   /\ u.error_log[Len(u.error_log)].record_id = t.batch_records[t.bi]
                   /\ u.error_log[Len(u.error_log)].field = t.ai
                   /\ u.stats.records_processed = t.stats.records_processed
                   /\ t.ai < Len(RecOf(t).atts)
                      => /\ u.pc = "batch"
                         /\ u.bi = t.bi
                         /\ u.ai = t.ai + 1
                         /\ u.batch_records = t.batch_records]_vars

\* the download of the first attachment of a record has failed and the second
\* attachment of the record is about to be attempted
C24_Witness ==
    \E w \in TaskIds :
        LET t == tasks[w]
        IN /\ t.pc = "batch"
           /\ t.ai = 2
           /\ RecOf(t).atts = <<"http", "http">>
           /\ t.error_log # <<>>
           /\ t.error_log[Len(t.error_log)]
                 = [record_id |-> t.batch_records[t.bi], field |-> 1, error |-> "failed"]

\* C25 (SpecTimely), as stated: a call of wait never blocks its caller for longer than
\* 1/rate, whatever the number of callers sharing the limiter.
C25_BlockedAtMostInterval ==
    \A k \in 1..Len(limiter.waited) : limiter.waited[k] <= MinInterval

\* C25 (SpecTimely), amended: the sleep inside wait never exceeds 1/rate; a call is
\* blocked for the sleeps of the calls queued before it and its own, at most k/rate
\* when k callers share the limiter.
C25_BlockedAtMostIntervalPerCaller ==
    /\ \A k \in 1..Len(limiter.waited) : limiter.waited[k] <= MaxCallers * MinInterval
    /\ \A c \in Callers :
          limiter.pc[c] = "sleeping"
          => /\ limiter.wake[c] - limiter.now <= MinInterval
             /\ limiter.wake[c] - limiter.called[c] <= MaxCallers * MinInterval

\* a call has returned after as many intervals as there are callers, the others
\* having been served before it
C25_Witness ==
    /\ Len(limiter.waited) >= MaxCallers
    /\ limiter.waited[Len(limiter.waited)] = MaxCallers * MinInterval

\* C31 (SpecProc): the flag was_processed returned by process_if_needed is true
\* exactly when the returned bytes differ from the bytes handed in.
C31_FlagMeansBytesAltered ==
    processor.called
    => (processor.result.was_processed
          <=> processor.result.bytes # processor.image_bytes)

(***************************************************************************)
(* SpecUpdate: BatchSyncRepository on its own, db/models.py:342-439.       *)
(* Rows are created and then updated with the keyword arguments the        *)
(* callers of update_batch_sync use: a status (set_status), the progress   *)
(* of a batch (batch_engine.py:161-170) or an error log (append_errors).   *)
(***************************************************************************)
SuppliedArgs ==
    {[status |-> st] : st \in {"paused", "cancelled", "completed", "failed"}}
    \cup {[current_offset |-> n, batches_completed |-> 1, records_processed |-> n,
           images_synced |-> 1, images_skipped |-> 0, errors |-> n - 1] : n \in 1..2}
    \cup {[error_log |-> <<[record_id |-> 1, field |-> 1, error |-> "failed"]>>]}

\* models.py:342-373
CreateBatchSync(cfg) ==
    /\ Len(sessions) < MaxSessions
    /\ sessions' = Append(sessions, NewSession(cfg))
    /\ UNCHANGED <<source, pause_requested, cancel_requested, tasks, images, storage,
                   passed, appended, others>>

\* models.py:394-435
UpdateBatchSyncCalled(id, supplied) ==
    /\ id \in DOMAIN sessions
    /\ updates.calls < MaxUpdates
    /\ sessions' = UpdateBatchSync(sessions, id, supplied)
    /\ updates' = [calls |-> updates.calls + 1, batch_id |-> id, supplied |-> supplied]
    /\ UNCHANGED <<source, pause_requested, cancel_requested, tasks, images, storage,
                   passed, appended, limiter, auth, processor, fetcher, runs, sync>>

NextUpdate ==
    \/ \E cfg \in Configs({1}, {0}, {0}, {FALSE, TRUE}) : CreateBatchSync(cfg)
    \/ \E id \in 1..MaxSessions, supplied \in SuppliedArgs :
          UpdateBatchSyncCalled(id, supplied)

SpecUpdate == InitRate /\ [][NextUpdate]_vars

\* the fields of a row that a call of update_batch_sync was not given
NotSupplied(id) == DOMAIN sessions[id] \ DOMAIN updates'.supplied

\* C32 (SpecUpdate): update_batch_sync changes only the fields its caller supplied and
\* leaves every other field, and every other row, unchanged; a call that supplies the
\* status alone, as set_status does, leaves current_offset, the counters and the error
\* log unchanged.
C32_OnlySuppliedFieldsChange ==
    [][updates'.calls # updates.calls
        => /\ DOMAIN sessions' = DOMAIN sessions
           /\ \A s \in DOMAIN sessions \ {updates'.batch_id} : sessions'[s] = sessions[s]
           /\ DOMAIN sessions'[updates'.batch_id] = DOMAIN sessions[updates'.batch_id]
           /\ \A f \in NotSupplied(updates'.batch_id) :
                 sessions'[updates'.batch_id][f] = sessions[updates'.batch_id][f]
           /\ DOMAIN updates'.supplied = {"status"}
              => \A f \in {"current_offset", "batches_completed", "records_processed",
                           "images_synced", "images_skipped", "errors", "error_log"} :
                    sessions'[updates'.batch_id][f] = sessions[updates'.batch_id][f]]_vars

\* a session with progress and an error log has just been marked paused by a call
\* that supplied the status alone, next to another session
C32_Witness ==
    /\ updates.calls = MaxUpdates
    /\ DOMAIN updates.supplied = {"status"}
    /\ Len(sessions) > 1
    /\ sessions[updates.batch_id].status = "paused"
    /\ sessions[updates.batch_id].current_offset = 2
    /\ sessions[updates.batch_id].errors = 1
    /\ sessions[updates.batch_id].error_log # <<>>

(***************************************************************************)
(* SpecUpload: sessions run one after the other over the same report, a    *)
(* new one started once the task of the last has returned.  A download or  *)
(* an upload may fail, and so may the metadata write that follows an       *)
(* upload.                                                                 *)
(***************************************************************************)
\* batch_engine.py:335-367 -- the upload succeeds, then upsert_image raises: the object
\* stays in the bucket without a row, the attachment is counted as an error
MetadataFails(w) ==
    /\ tasks[w].pc = "awaitDownload"
    /\ MayRun(w)
    /\ LET t == tasks[w]
           rid == t.batch_records[t.bi]
           field == t.ai
       IN /\ StoragePath(rid, field) \notin storage
          /\ storage' = storage \cup {StoragePath(rid, field)}
          /\ tasks' = [tasks EXCEPT ![w] = AttachmentError(t, rid, field, "failed")]
    /\ UNCHANGED <<source, others, sessions, pause_requested, cancel_requested, images,
                   passed, appended>>

\* routes.py:277-335 -- the operator starts a session when nothing runs
UploadStart(cfg) ==
    /\ Quiet
    /\ StartBatchSync(cfg)

NextUpload ==
    \/ \E cfg \in CtlConfigs : UploadStart(cfg)
    \/ \E w \in TaskIds : TaskRuns(w)
    \/ \E w \in TaskIds : AttachmentFails(w)
    \/ \E w \in TaskIds : MetadataFails(w)
    \/ \E w \in TaskIds : UploadConflict(w)

SpecUpload == Init /\ [][NextUpload]_vars

\* C33 (SpecUpload): over any sequence of runs, no upload is issued for a (record id,
\* field name) whose object an earlier attempt has already put in the bucket: no
\* attachment ever ends with the bucket refusing a path it already holds.
C33_NoRepeatedUpload ==
    \A w \in TaskIds :
        \A k \in 1..Len(tasks[w].error_log) : tasks[w].error_log[k].error # "conflict"

\* C34 (SpecSeq): in every reachable state the persisted current_offset of a session
\* equals its persisted records_processed, across batches, pauses and resumes.
C34_OffsetEqualsProcessed ==
    \A s \in DOMAIN sessions :
        sessions[s].current_offset = sessions[s].records_processed

\* a resumed run has persisted a batch after the batches of the run before it, in a
\* report whose first record the date_to bound excludes
C34_Witness ==
    \E w \in TaskIds :
        /\ tasks[w].pc \notin {"idle", "sched"}
        /\ tasks[w].current_offset > 0
        /\ sessions[tasks[w].sid].current_offset > tasks[w].current_offset
        /\ Filtered(source[1], tasks[w].date_to)

\* the persisted progress fields of a session
ProgressFields ==
    {"current_offset", "batches_completed", "records_processed", "images_synced",
     "images_skipped", "errors"}

\* C35 (Spec): the persisted current_offset, batches_completed, records_processed,
\* images_synced, images_skipped and errors of a session never decrease.
C35_CountersNeverDecrease ==
    [][\A s \in DOMAIN sessions : \A f \in ProgressFields :
          sessions'[s][f] >= sessions[s][f]]_vars

\* the attachments of the first n records, each counted as often as its record was
\* handed to _process_record in session s
RECURSIVE AttachmentsPassed(_, _)
AttachmentsPassed(s, n) ==
    IF n = 0 THEN 0
    ELSE AttachmentsPassed(s, n - 1) + passed[s][n] * Len(source[n].atts)

\* C36 (SpecBatch): every attachment of a record processed in a non-dry-run session
\* is counted exactly once: when the run has ended normally, images_synced +
\* images_skipped + errors equals the number of attachments of the records processed,
\* whichever step of an attachment failed.
C36_EveryAttachmentCountedOnce ==
    \A s \in DOMAIN sessions :
        (sessions[s].status \in {"completed", "completed_with_errors"}
            /\ ~sessions[s].dry_run)
        => sessions[s].images_synced + sessions[s].images_skipped + sessions[s].errors
              = AttachmentsPassed(s, Len(source))

\* C37 (SpecUpload): every row of the images table refers to a storage path that an
\* upload has put in the bucket: the metadata write is never performed when its upload
\* failed or was not attempted.
C37_RowsHaveObjects ==
    \A r \in images : r.storage_path \in storage

\* one attachment has its object and its row, another was uploaded without its row
\* being written
C37_Witness ==
    /\ \E r \in images : r.storage_path \in storage
    /\ \E p \in storage : \A r \in images : r.storage_path # p

(***************************************************************************)
(* SpecLive: SpecStop over a report without earlier rows, with a fair      *)
(* event loop.  A task that can take a step eventually takes one: the loop *)
(* runs every runnable coroutine, a page request is answered (by a page or *)
(* by an error, fetch_records sleeping through the 429 answers before it), *)
(* a download returns or raises, and asyncio.sleep ends.  The operator's   *)
(* requests are not fair: nobody has to pause, cancel or resume.           *)
(***************************************************************************)
SpecLive ==
    /\ Init
    /\ [][NextStop]_vars
    /\ \A w \in TaskIds : WF_vars(TaskRuns(w) \/ TaskFails(w))

\* the statuses run_batch_sync leaves a session in
ExitStatuses == {"paused", "cancelled", "completed", "completed_with_errors", "failed"}

\* no task is running (or about to run) session s
Returned(s) == \A w \in TaskIds : tasks[w].sid # s

\* C38 (SpecLive): over a finite report whose page requests are all answered, and with
\* a ledger that does not fail, every run_batch_sync that has been scheduled eventually
\* returns, leaving its session paused, cancelled, completed, completed_with_errors or
\* failed.
C38_RunTerminates ==
    \A s \in 1..MaxSessions :
        (s \in DOMAIN sessions /\ ~Returned(s))
            ~> (s \in DOMAIN sessions /\ Returned(s)
                   /\ sessions[s].status \in ExitStatuses)

\* a run has returned after its last batch, the whole report processed
C38_Witness ==
    \E s \in DOMAIN sessions :
        /\ Returned(s)
        /\ sessions[s].status = "completed"
        /\ sessions[s].records_processed = Len(source)
        /\ Len(source) = CtlRecords

\* C39 (SpecStop): a run honours a pause or cancel signal only at the check that
\* follows a full batch of batch_size records.  While the trailing partial batch is
\* processed the status stays as it is whatever signal is set, the run then ends
\* completed or completed_with_errors, and on exit neither signal is left.
C39_TrailingBatchIgnoresSignals ==
    [][\A w \in TaskIds :
          /\ (tasks[w].final /\ tasks'[w] # tasks[w])
             => IF tasks'[w].pc = "idle"
                THEN /\ sessions'[tasks[w].sid].status
                           \in {"completed", "completed_with_errors"}
                     /\ tasks[w].sid \notin pause_requested'
                     /\ tasks[w].sid \notin cancel_requested'
                ELSE sessions'[tasks[w].sid].status = "running"
          /\ (/\ tasks[w].pc \notin {"idle", "sched"}
              /\ sessions[tasks[w].sid].status = "running"
              /\ sessions'[tasks[w].sid].status \in {"paused", "cancelled"})
             => /\ tasks[w].pc = "persist"
                /\ ~tasks[w].final
                /\ Len(tasks[w].batch_records) = tasks[w].batch_size]_vars

\* the trailing partial batch has been processed while a pause and a cancel signal
\* were set for its session, after a full batch of the same run
C39_Witness ==
    \E w \in TaskIds :
        /\ tasks[w].pc = "persist"
        /\ tasks[w].final
        /\ Len(tasks[w].batch_records) < tasks[w].batch_size
        /\ tasks[w].stats.batches_completed > 0
        /\ tasks[w].sid \in pause_requested
        /\ tasks[w].sid \in cancel_requested

(***************************************************************************)
(* SpecSync: one call of SyncEngine.run_sync, sync/engine.py:42-100, with  *)
(* its row of sync_runs, db/models.py:282-321.  A record stands for what   *)
(* _process_record adds to the statistics: one image synced, one skipped,  *)
(* or one error.                                                           *)
(***************************************************************************)
SyncSizes == {0, 1, ProgressEvery, MaxSyncRecords}

SyncOutcomes == {"synced", "skipped", "error"}

\* engine.py:102-187 -- the statistics after a record
Counted(stats, outcome) ==
    CASE outcome = "synced" -> [stats EXCEPT !.images_synced = @ + 1]
      [] outcome = "skipped" -> [stats EXCEPT !.images_skipped = @ + 1]
      [] outcome = "error" -> [stats EXCEPT !.errors = @ + 1]

\* models.py:292-311 -- update_run(run_id, **stats)
UpdateRun(row, stats) ==
    [row EXCEPT !.records_processed = stats.records_processed,
                !.images_synced = stats.images_synced,
                !.images_skipped = stats.images_skipped,
                !.errors = stats.errors]

\* models.py:313-321 -- complete_run writes the status, completed_at and, when it is
\* not empty, the error log
CompleteRun(row, status, error_log) ==
    IF error_log # 0
    THEN [row EXCEPT !.status = status, !.error_log = error_log]
    ELSE [row EXCEPT !.status = status]

\* engine.py:50-58, models.py:286-290 with the column defaults of models.py:40-50
RunSyncCalled(records, max_records) ==
    /\ sync.pc = "idle"
    /\ sync' = [SyncInit EXCEPT
                   !.pc = "loop",
                   !.records = records,
                   !.max_records = max_records,
                   !.row = [status |-> "running", records_processed |-> 0,
                            images_synced |-> 0, images_skipped |-> 0, errors |-> 0,
                            error_log |-> 0]]
    /\ UNCHANGED <<engine, limiter, auth, processor, fetcher, runs, updates>>

\* engine.py:66-86 -- one turn of the async for
SyncRecord(outcome) ==
    /\ sync.pc = "loop"
    /\ sync.cursor < sync.records
    /\ LET seen == [sync.stats EXCEPT !.records_processed = @ + 1]
       IN IF sync.max_records # 0 /\ seen.records_processed > sync.max_records
          THEN sync' = [sync EXCEPT !.stats = seen, !.pc = "finish"]
          ELSE LET stats == Counted(seen, outcome)
               IN sync' = [sync EXCEPT
                      !.stats = stats,
                      !.cursor = @ + 1,
                      !.error_log = IF outcome = "error" THEN @ + 1 ELSE @,
                      !.row = IF stats.records_processed % ProgressEvery = 0
                              THEN UpdateRun(@, stats) ELSE @]
    /\ UNCHANGED <<engine, limiter, auth, processor, fetcher, runs, updates>>

\* engine.py:88-91, 99-100 -- the report is exhausted (or max_records reached)
SyncCompletes ==
    /\ \/ sync.pc = "finish"
       \/ sync.pc = "loop" /\ sync.cursor = sync.records
    /\ sync' = [sync EXCEPT
                   !.pc = "done",
                   !.row = CompleteRun(@, IF sync.stats.errors = 0 THEN "completed"
                                          ELSE "completed_with_errors", sync.error_log),
                   !.returned = sync.stats]
    /\ UNCHANGED <<engine, limiter, auth, processor, fetcher, runs, updates>>

\* engine.py:93-97 -- fetch_records raises: the run is marked failed, run_sync raises
SyncFails ==
    /\ sync.pc = "loop"
    /\ sync.cursor < sync.records
    /\ sync' = [sync EXCEPT
                   !.pc = "done",
                   !.error_log = @ + 1,
                   !.row = CompleteRun(@, "failed", sync.error_log + 1)]
    /\ UNCHANGED <<engine, limiter, auth, processor, fetcher, runs, updates>>

NextSync ==
    \/ \E records \in SyncSizes, max_records \in {0, 1} :
          RunSyncCalled(records, max_records)
    \/ \E outcome \in SyncOutcomes : SyncRecord(outcome)
    \/ SyncCompletes
    \/ SyncFails

SpecSync == InitRate /\ [][NextSync]_vars

\* C40 (SpecSync): when run_sync has finalized its run to completed or
\* completed_with_errors, the counters persisted in the row of sync_runs equal the
\* statistics the call returns, for every number of records in the report.
C40_RowMatchesReturnedStats ==
    (sync.pc = "done" /\ sync.row.status \in {"completed", "completed_with_errors"})
    => \A f \in {"records_processed", "images_synced", "images_skipped", "errors"} :
          sync.row[f] = sync.returned[f]

====
